---- MODULE Spec2Model ----
(***************************************************************************)
(* Library Management System: the lending and inventory logic of           *)
(* src/library (models.py, data_handler.py, auth.py, service.py).          *)
(*                                                                         *)
(* The three JSON files of DataHandler are the variables books, users and  *)
(* transactions (sequences of dictionaries, in file order); the session of *)
(* Authentication is current_user; the wall clock read by datetime.now()   *)
(* is now.  Every DataHandler / Authentication / LibraryService method is  *)
(* an operator computed as the method computes it, and every call of the   *)
(* service is one action (the program is single-threaded and synchronous). *)
(*                                                                         *)
(* Strings are sequences of one-character strings, so that str.lower() and *)
(* the substring test `q in s` are computed and not assumed.  Time is      *)
(* counted in clock units: MicrosPerSec units make one second (the         *)
(* resolution strftime("%Y-%m-%d %H:%M:%S") keeps) and SecsPerDay seconds  *)
(* make one day.  Money is counted in cents.                               *)
(***************************************************************************)
EXTENDS Integers, Sequences, FiniteSets, TLC

VARIABLES books, users, transactions, current_user, now, nextBookId, procs

vars == <<books, users, transactions, current_user, now, nextBookId, procs>>

(***************************************************************************)
(* Bounds of the model.                                                    *)
(***************************************************************************)
MicrosPerSec == 2
SecsPerDay == 1
MaxDays == 1
MaxFineDays == 4
MaxLoanDays == 1
MaxCopies == 2
MaxTotalCopies == 2
MaxBookIds == 2
MaxTransactions == 2
NumProcs == 2

UnitsPerDay == SecsPerDay * MicrosPerSec
MaxNow == MaxDays * UnitsPerDay
MaxFineNow == MaxFineDays * UnitsPerDay

\* Python's None.
None == [none |-> TRUE]

(***************************************************************************)
(* Strings.                                                                *)
(***************************************************************************)
\* str.lower(), one character.
LowerChar(c) ==
    CASE c = "A" -> "a"
      [] c = "B" -> "b"
      [] c = "X" -> "x"
      [] OTHER -> c

\* str.lower().
Lower(s) == [i \in 1..Len(s) |-> LowerChar(s[i])]

\* Python's `q in s` for strings: q is a contiguous substring of s.
Contains(q, s) ==
    \E i \in 0..(Len(s) - Len(q)) :
        \A j \in 1..Len(q) : s[i + j] = q[j]

\* The first of the positions S of a list at which a loop's test succeeds,
\* 0 when there is none.
FirstIndex(S) ==
    IF S = {} THEN 0 ELSE CHOOSE i \in S : \A j \in S : i <= j

(***************************************************************************)
(* models.py                                                               *)
(***************************************************************************)
\* A datetime object: t clock units after the epoch of the model.
Datetime(t) == [t |-> t]

\* datetime.strftime("%Y-%m-%d %H:%M:%S"): the text keeps whole seconds.
Strftime(d) == [text |-> d.t \div MicrosPerSec]

\* datetime.strptime(text, "%Y-%m-%d %H:%M:%S").
Strptime(s) == Datetime(s.text * MicrosPerSec)

\* d + timedelta(days=n).
PlusDays(d, n) == Datetime(d.t + n * UnitsPerDay)

\* (a - b).days with a day begun counted as a whole day.
DeltaDays_rounded_up(a, b) == (a.t - b.t + UnitsPerDay - 1) \div UnitsPerDay

\* (a - b).days for datetimes a, b: whole days, rounded down.
DeltaDays(a, b) == (a.t - b.t) \div UnitsPerDay

\* Book.__init__ (publisher and year are carried but never read by the logic).
Book(id, title, author, isbn, copies) ==
    [id |-> id, title |-> title, author |-> author, isbn |-> isbn,
     total_copies |-> copies, available_copies |-> copies]

\* Book.to_dict
Book_to_dict(book) ==
    [id |-> book.id, title |-> book.title, author |-> book.author,
     isbn |-> book.isbn, total_copies |-> book.total_copies,
     available_copies |-> book.available_copies]

\* Book.from_dict that forgets the stored available_copies.
Book_from_dict_total(data) ==
    Book(data.id, data.title, data.author, data.isbn, data.total_copies)

\* Book.from_dict
Book_from_dict(data) ==
    [Book(data.id, data.title, data.author, data.isbn, data.total_copies)
        EXCEPT !.available_copies = data.available_copies]

\* User.__init__
User(id, username, password, role) ==
    [id |-> id, username |-> username, password |-> password, role |-> role]

\* User.to_dict
User_to_dict(user) ==
    [id |-> user.id, username |-> user.username, password |-> user.password,
     role |-> user.role]

\* User.from_dict
User_from_dict(data) == User(data.id, data.username, data.password, data.role)

\* The default of Transaction.__init__'s days and of issue_book's days.
DefaultLoanDays == 14

\* Transaction.__init__ that ignores days and uses the default loan period.
Transaction_default_days(id, book_id, user_id, transaction_type, days, t) ==
    [id |-> id, book_id |-> book_id, user_id |-> user_id,
     transaction_type |-> transaction_type,
     transaction_date |-> Datetime(t),
     due_date |-> IF transaction_type = "issue"
                  THEN PlusDays(Datetime(t), DefaultLoanDays)
                  ELSE None,
     return_date |-> None,
     fine |-> 0]

\* Transaction.__init__ at clock value t.
Transaction(id, book_id, user_id, transaction_type, days, t) ==
    [id |-> id, book_id |-> book_id, user_id |-> user_id,
     transaction_type |-> transaction_type,
     transaction_date |-> Datetime(t),
     due_date |-> IF transaction_type = "issue" THEN PlusDays(Datetime(t), days)
                  ELSE None,
     return_date |-> None,
     fine |-> 0]

\* Transaction.to_dict
Transaction_to_dict(tr) ==
    [id |-> tr.id, book_id |-> tr.book_id, user_id |-> tr.user_id,
     transaction_type |-> tr.transaction_type,
     transaction_date |-> Strftime(tr.transaction_date),
     due_date |-> IF tr.due_date # None THEN Strftime(tr.due_date) ELSE None,
     return_date |-> IF tr.return_date # None THEN Strftime(tr.return_date) ELSE None,
     fine |-> tr.fine]

\* from_dict that keeps the due date the constructor computed.
Transaction_from_dict_fresh_due(data, t) ==
    LET fresh == Transaction(data.id, data.book_id, data.user_id,
                             data.transaction_type, DefaultLoanDays, t)
    IN [fresh EXCEPT
          !.transaction_date = Strptime(data.transaction_date),
          !.return_date = IF data.return_date # None THEN Strptime(data.return_date)
                          ELSE fresh.return_date,
          !.fine = data.fine]

\* Transaction.from_dict, called at clock value t (the constructor's own
\* dates are overwritten by the stored ones).
Transaction_from_dict(data, t) ==
    LET fresh == Transaction(data.id, data.book_id, data.user_id,
                             data.transaction_type, DefaultLoanDays, t)
    IN [fresh EXCEPT
          !.transaction_date = Strptime(data.transaction_date),
          !.due_date = IF data.due_date # None THEN Strptime(data.due_date)
                       ELSE fresh.due_date,
          !.return_date = IF data.return_date # None THEN Strptime(data.return_date)
                          ELSE fresh.return_date,
          !.fine = data.fine]

\* is_overdue without the test of return_date.
is_overdue_after_return(tr, t) ==
    IF tr.transaction_type = "issue"
    THEN t > tr.due_date.t
    ELSE FALSE

\* Transaction.is_overdue at clock value t.
is_overdue(tr, t) ==
    IF tr.transaction_type = "issue" /\ tr.return_date = None
    THEN t > tr.due_date.t
    ELSE FALSE

\* The default fine_per_day of Transaction.calculate_fine, in cents.
FinePerDay == 50

\* Transaction.calculate_fine at clock value t: the transaction object after
\* the call; the value returned is its fine.
calculate_fine(tr, t) ==
    IF is_overdue(tr, t)
    THEN [tr EXCEPT !.fine = DeltaDays(Datetime(t), tr.due_date) * FinePerDay]
    ELSE tr

(***************************************************************************)
(* data_handler.py: every method reads the whole file and writes it back   *)
(* whole; bs, us and ts are the contents of books.json, users.json and     *)
(* transactions.json.                                                      *)
(***************************************************************************)
\* DataHandler.get_all_books
dh_get_all_books(bs) == [i \in 1..Len(bs) |-> Book_from_dict(bs[i])]

\* DataHandler.add_book
dh_add_book(bs, book) == Append(bs, Book_to_dict(book))

\* update_book that writes the file back as it read it.
dh_update_book_lost(bs, book) == bs

\* DataHandler.update_book: the first record with the id is replaced.
dh_update_book(bs, book) ==
    LET k == FirstIndex({i \in 1..Len(bs) : bs[i].id = book.id})
    IN [i \in 1..Len(bs) |-> IF i = k THEN Book_to_dict(book) ELSE bs[i]]

\* delete_book with the test of the id inverted.
dh_delete_book_inverted(bs, book_id) == SelectSeq(bs, LAMBDA d : d.id = book_id)

\* DataHandler.delete_book
dh_delete_book(bs, book_id) == SelectSeq(bs, LAMBDA d : d.id # book_id)

\* DataHandler.find_book_by_id
dh_find_book_by_id(bs, book_id) ==
    LET k == FirstIndex({i \in 1..Len(bs) : bs[i].id = book_id})
    IN IF k = 0 THEN None ELSE Book_from_dict(bs[k])

\* A field for which `not field` holds (None, the default, or the empty string).
NoField == ""

\* search_books that lower-cases the query but not the fields of the books.
dh_search_books_casesensitive(bs, query, field) ==
    LET q == Lower(query)
        all == dh_get_all_books(bs)
    IN CASE field = NoField ->
              SelectSeq(all, LAMBDA b : \/ Contains(q, b.title)
                                        \/ Contains(q, b.author)
                                        \/ Contains(q, b.isbn))
         [] field = "title" -> SelectSeq(all, LAMBDA b : Contains(q, b.title))
         [] field = "author" -> SelectSeq(all, LAMBDA b : Contains(q, b.author))
         [] field = "isbn" -> SelectSeq(all, LAMBDA b : Contains(q, b.isbn))
         [] OTHER -> <<>>

\* search_books that returns the matches last to first.
dh_search_books_reversed(bs, query, field) ==
    LET q == Lower(query)
        all == dh_get_all_books(bs)
        hits == CASE field = NoField ->
                       SelectSeq(all, LAMBDA b : \/ Contains(q, Lower(b.title))
                                                 \/ Contains(q, Lower(b.author))
                                                 \/ Contains(q, Lower(b.isbn)))
                  [] field = "title" -> SelectSeq(all, LAMBDA b : Contains(q, Lower(b.title)))
                  [] field = "author" -> SelectSeq(all, LAMBDA b : Contains(q, Lower(b.author)))
                  [] field = "isbn" -> SelectSeq(all, LAMBDA b : Contains(q, Lower(b.isbn)))
                  [] OTHER -> <<>>
    IN [i \in 1..Len(hits) |-> hits[Len(hits) + 1 - i]]

\* DataHandler.search_books; with no field it searches the three fields.
dh_search_books(bs, query, field) ==
    LET q == Lower(query)
        all == dh_get_all_books(bs)
    IN CASE field = NoField ->
              SelectSeq(all, LAMBDA b : \/ Contains(q, Lower(b.title))
                                        \/ Contains(q, Lower(b.author))
                                        \/ Contains(q, Lower(b.isbn)))
         [] field = "title" -> SelectSeq(all, LAMBDA b : Contains(q, Lower(b.title)))
         [] field = "author" -> SelectSeq(all, LAMBDA b : Contains(q, Lower(b.author)))
         [] field = "isbn" -> SelectSeq(all, LAMBDA b : Contains(q, Lower(b.isbn)))
         [] OTHER -> <<>>

\* DataHandler.get_all_users
dh_get_all_users(us) == [i \in 1..Len(us) |-> User_from_dict(us[i])]

\* DataHandler.add_user
dh_add_user(us, user) == Append(us, User_to_dict(user))

\* DataHandler.update_user
dh_update_user(us, user) ==
    LET k == FirstIndex({i \in 1..Len(us) : us[i].id = user.id})
    IN [i \in 1..Len(us) |-> IF i = k THEN User_to_dict(user) ELSE us[i]]

\* DataHandler.find_user_by_id
dh_find_user_by_id(us, user_id) ==
    LET k == FirstIndex({i \in 1..Len(us) : us[i].id = user_id})
    IN IF k = 0 THEN None ELSE User_from_dict(us[k])

\* find_user_by_username that compares the names as they are written.
dh_find_user_by_username_exact(us, username) ==
    LET k == FirstIndex({i \in 1..Len(us) : us[i].username = username})
    IN IF k = 0 THEN None ELSE User_from_dict(us[k])

\* DataHandler.find_user_by_username: the names are compared lower-cased.
dh_find_user_by_username(us, username) ==
    LET k == FirstIndex({i \in 1..Len(us) : Lower(us[i].username) = Lower(username)})
    IN IF k = 0 THEN None ELSE User_from_dict(us[k])

\* DataHandler.get_all_transactions at clock value t.
dh_get_all_transactions(ts, t) ==
    [i \in 1..Len(ts) |-> Transaction_from_dict(ts[i], t)]

\* DataHandler.add_transaction
dh_add_transaction(ts, tr) == Append(ts, Transaction_to_dict(tr))

\* update_transaction that replaces every record of the transaction's book.
dh_update_transaction_bybook(ts, tr) ==
    [i \in 1..Len(ts) |-> IF ts[i].book_id = tr.book_id
                          THEN Transaction_to_dict(tr) ELSE ts[i]]

\* update_transaction that writes the file back as it read it.
dh_update_transaction_lost(ts, tr) == ts

\* DataHandler.update_transaction
dh_update_transaction(ts, tr) ==
    LET k == FirstIndex({i \in 1..Len(ts) : ts[i].id = tr.id})
    IN [i \in 1..Len(ts) |-> IF i = k THEN Transaction_to_dict(tr) ELSE ts[i]]

\* get_user_transactions that ignores active_only.
dh_get_user_transactions_unfiltered(ts, user_id, active_only, t) ==
    SelectSeq(dh_get_all_transactions(ts, t), LAMBDA tr : tr.user_id = user_id)

\* get_user_transactions with the test of return_date inverted.
dh_get_user_transactions_returned(ts, user_id, active_only, t) ==
    IF active_only
    THEN SelectSeq(dh_get_all_transactions(ts, t),
                   LAMBDA tr : /\ tr.user_id = user_id
                               /\ tr.transaction_type = "issue"
                               /\ tr.return_date # None)
    ELSE SelectSeq(dh_get_all_transactions(ts, t), LAMBDA tr : tr.user_id = user_id)

\* get_user_transactions that does not compare the user.
dh_get_user_transactions_anyuser(ts, user_id, active_only, t) ==
    IF active_only
    THEN SelectSeq(dh_get_all_transactions(ts, t),
                   LAMBDA tr : /\ tr.transaction_type = "issue"
                               /\ tr.return_date = None)
    ELSE dh_get_all_transactions(ts, t)

\* DataHandler.get_user_transactions
dh_get_user_transactions(ts, user_id, active_only, t) ==
    IF active_only
    THEN SelectSeq(dh_get_all_transactions(ts, t),
                   LAMBDA tr : /\ tr.user_id = user_id
                               /\ tr.transaction_type = "issue"
                               /\ tr.return_date = None)
    ELSE SelectSeq(dh_get_all_transactions(ts, t), LAMBDA tr : tr.user_id = user_id)

\* get_book_transactions that ignores active_only.
dh_get_book_transactions_unfiltered(ts, book_id, active_only, t) ==
    SelectSeq(dh_get_all_transactions(ts, t), LAMBDA tr : tr.book_id = book_id)

\* DataHandler.get_book_transactions
dh_get_book_transactions(ts, book_id, active_only, t) ==
    IF active_only
    THEN SelectSeq(dh_get_all_transactions(ts, t),
                   LAMBDA tr : /\ tr.book_id = book_id
                               /\ tr.transaction_type = "issue"
                               /\ tr.return_date = None)
    ELSE SelectSeq(dh_get_all_transactions(ts, t), LAMBDA tr : tr.book_id = book_id)

\* get_overdue_transactions that does not compare due_date with the clock.
dh_get_overdue_transactions_all_active(ts, t) ==
    SelectSeq(dh_get_all_transactions(ts, t),
              LAMBDA tr : /\ tr.transaction_type = "issue"
                          /\ tr.return_date = None
                          /\ tr.due_date # None)

\* DataHandler.get_overdue_transactions at clock value t (from_dict yields
\* datetime objects, so the branch for a due_date still in text is not taken).
dh_get_overdue_transactions(ts, t) ==
    SelectSeq(dh_get_all_transactions(ts, t),
              LAMBDA tr : /\ tr.transaction_type = "issue"
                          /\ tr.return_date = None
                          /\ tr.due_date # None
                          /\ t > tr.due_date.t)

(***************************************************************************)
(* auth.py: cu is Authentication.current_user, a User object or None.      *)
(***************************************************************************)
\* Authentication._hash_password: the SHA-256 digest of the password.
hash_password(password) == [sha256 |-> password]

\* Authentication.register_user; id is the uuid4 drawn by User.__init__.
register_user(us, id, username, password, role) ==
    IF dh_find_user_by_username(us, username) # None
    THEN [ok |-> FALSE, msg |-> "Username already exists.", users |-> us]
    ELSE [ok |-> TRUE, msg |-> "User registered successfully.",
          users |-> dh_add_user(us, User(id, username, hash_password(password), role))]

\* login whose failures unbind the session.
login_clears_session(us, cu, username, password) ==
    LET user == dh_find_user_by_username(us, username)
    IN IF user = None
       THEN [ok |-> FALSE, msg |-> "User not found.", current_user |-> None]
       ELSE IF user.password # hash_password(password)
       THEN [ok |-> FALSE, msg |-> "Incorrect password.", current_user |-> None]
       ELSE [ok |-> TRUE, msg |-> "Login successful.", current_user |-> user]

\* Authentication.login
login(us, cu, username, password) ==
    LET user == dh_find_user_by_username(us, username)
    IN IF user = None
       THEN [ok |-> FALSE, msg |-> "User not found.", current_user |-> cu]
       ELSE IF user.password # hash_password(password)
       THEN [ok |-> FALSE, msg |-> "Incorrect password.", current_user |-> cu]
       ELSE [ok |-> TRUE, msg |-> "Login successful.", current_user |-> user]

\* Authentication.logout
logout(cu) == [ok |-> TRUE, msg |-> "Logged out successfully.", current_user |-> None]

\* Authentication.is_authenticated
is_authenticated(cu) == cu # None

\* Authentication.is_admin
is_admin(cu) == is_authenticated(cu) /\ cu.role = "admin"

\* is_librarian that does not admit the admin role.
is_librarian_only(cu) == is_authenticated(cu) /\ cu.role = "librarian"

\* Authentication.is_librarian
is_librarian(cu) ==
    is_authenticated(cu) /\ (cu.role = "librarian" \/ cu.role = "admin")

\* Authentication.change_password
change_password(us, cu, current_password, new_password) ==
    IF ~is_authenticated(cu)
    THEN [ok |-> FALSE, msg |-> "No user is logged in.", users |-> us,
          current_user |-> cu]
    ELSE IF cu.password # hash_password(current_password)
    THEN [ok |-> FALSE, msg |-> "Current password is incorrect.", users |-> us,
          current_user |-> cu]
    ELSE LET user == [cu EXCEPT !.password = hash_password(new_password)]
         IN [ok |-> TRUE, msg |-> "Password changed successfully.",
             users |-> dh_update_user(us, user), current_user |-> user]

(***************************************************************************)
(* service.py: each method as a function of the store, the session and the *)
(* clock value t; it yields the outcome (success, message) and the files   *)
(* as the method leaves them.                                              *)
(***************************************************************************)
\* LibraryService.add_book; id is the uuid4 drawn if a Book is created.
add_book(bs, cu, id, title, author, isbn, copies) ==
    IF ~is_librarian(cu)
    THEN [ok |-> FALSE, msg |-> "Only librarians can add books.", books |-> bs]
    ELSE LET found == dh_search_books(bs, isbn, "isbn")
         IN IF found # <<>>
            THEN LET book == [found[1] EXCEPT
                                !.total_copies = @ + copies,
                                !.available_copies = @ + copies]
                 IN [ok |-> TRUE, msg |-> "Added copies of existing book",
                     books |-> dh_update_book(bs, book)]
            ELSE [ok |-> TRUE, msg |-> "Added new book",
                  books |-> dh_add_book(bs, Book(id, title, author, isbn, copies))]

\* remove_book without the test for active loans.
remove_book_unguarded(bs, ts, cu, book_id, t) ==
    IF ~is_librarian(cu)
    THEN [ok |-> FALSE, msg |-> "Only librarians can remove books.", books |-> bs]
    ELSE IF dh_find_book_by_id(bs, book_id) = None
    THEN [ok |-> FALSE, msg |-> "Book not found.", books |-> bs]
    ELSE [ok |-> TRUE, msg |-> "Book removed", books |-> dh_delete_book(bs, book_id)]

\* LibraryService.remove_book
remove_book(bs, ts, cu, book_id, t) ==
    IF ~is_librarian(cu)
    THEN [ok |-> FALSE, msg |-> "Only librarians can remove books.", books |-> bs]
    ELSE IF dh_find_book_by_id(bs, book_id) = None
    THEN [ok |-> FALSE, msg |-> "Book not found.", books |-> bs]
    ELSE IF dh_get_book_transactions(ts, book_id, TRUE, t) # <<>>
    THEN [ok |-> FALSE, msg |-> "Cannot remove book that is currently issued.",
          books |-> bs]
    ELSE [ok |-> TRUE, msg |-> "Book removed", books |-> dh_delete_book(bs, book_id)]

\* issue_book that stores the Transaction before it scans the user's loans.
issue_book_writing_first(bs, ts, cu, id, book_id, days, t) ==
    IF ~is_authenticated(cu)
    THEN [ok |-> FALSE, msg |-> "You must be logged in to issue a book.",
          books |-> bs, transactions |-> ts]
    ELSE LET book == dh_find_book_by_id(bs, book_id)
         IN IF book = None
            THEN [ok |-> FALSE, msg |-> "Book not found.",
                  books |-> bs, transactions |-> ts]
            ELSE IF book.available_copies <= 0
            THEN [ok |-> FALSE, msg |-> "No copies of this book are available.",
                  books |-> bs, transactions |-> ts]
            ELSE LET active == dh_get_user_transactions(ts, cu.id, TRUE, t)
                     tr == Transaction(id, book_id, cu.id, "issue", days, t)
                 IN IF \E i \in 1..Len(active) : active[i].book_id = book_id
                    THEN [ok |-> FALSE, msg |-> "You already have this book issued.",
                          books |-> bs, transactions |-> dh_add_transaction(ts, tr)]
                    ELSE [ok |-> TRUE, msg |-> "Book issued",
                          books |-> dh_update_book(bs,
                              [book EXCEPT !.available_copies = @ - 1]),
                          transactions |-> dh_add_transaction(ts, tr)]

\* LibraryService.issue_book; id is the uuid4 drawn by Transaction.__init__.
issue_book(bs, ts, cu, id, book_id, days, t) ==
    IF ~is_authenticated(cu)
    THEN [ok |-> FALSE, msg |-> "You must be logged in to issue a book.",
          books |-> bs, transactions |-> ts]
    ELSE LET book == dh_find_book_by_id(bs, book_id)
         IN IF book = None
            THEN [ok |-> FALSE, msg |-> "Book not found.",
                  books |-> bs, transactions |-> ts]
            ELSE IF book.available_copies <= 0
            THEN [ok |-> FALSE, msg |-> "No copies of this book are available.",
                  books |-> bs, transactions |-> ts]
            ELSE LET active == dh_get_user_transactions(ts, cu.id, TRUE, t)
                 IN IF \E i \in 1..Len(active) : active[i].book_id = book_id
                    THEN [ok |-> FALSE, msg |-> "You already have this book issued.",
                          books |-> bs, transactions |-> ts]
                    ELSE LET tr == Transaction(id, book_id, cu.id, "issue", days, t)
                         IN [ok |-> TRUE, msg |-> "Book issued",
                             books |-> dh_update_book(bs,
                                 [book EXCEPT !.available_copies = @ - 1]),
                             transactions |-> dh_add_transaction(ts, tr)]

\* LibraryService.return_book
return_book(bs, ts, cu, book_id, t) ==
    IF ~is_authenticated(cu)
    THEN [ok |-> FALSE, msg |-> "You must be logged in to return a book.",
          books |-> bs, transactions |-> ts, fine |-> 0]
    ELSE LET book == dh_find_book_by_id(bs, book_id)
         IN IF book = None
            THEN [ok |-> FALSE, msg |-> "Book not found.",
                  books |-> bs, transactions |-> ts, fine |-> 0]
            ELSE LET active == dh_get_user_transactions(ts, cu.id, TRUE, t)
                     k == FirstIndex({i \in 1..Len(active) : active[i].book_id = book_id})
                 IN IF k = 0
                    THEN [ok |-> FALSE, msg |-> "You do not have this book issued.",
                          books |-> bs, transactions |-> ts, fine |-> 0]
                    ELSE LET returned == [active[k] EXCEPT !.return_date = Datetime(t)]
                             fined == calculate_fine(returned, t)
                         IN [ok |-> TRUE,
                             msg |-> IF fined.fine > 0 THEN "Book returned. Fine"
                                     ELSE "Book returned",
                             books |-> dh_update_book(bs,
                                 [book EXCEPT !.available_copies = @ + 1]),
                             transactions |-> dh_update_transaction(ts, fined),
                             fine |-> fined.fine]

\* The error of a query that succeeded (Python's None in the place of a message).
NoError == ""

\* LibraryService.get_user_books: the books returned, each with the
\* attributes the method attaches to it, and the files as the method leaves
\* them (it calls no method of the data handler that writes).
get_user_books(bs, ts, cu, t) ==
    IF ~is_authenticated(cu)
    THEN [items |-> <<>>, error |-> "You must be logged in to view your books.",
          books |-> bs, transactions |-> ts]
    ELSE LET active == dh_get_user_transactions(ts, cu.id, TRUE, t)
             found == SelectSeq(active,
                          LAMBDA tr : dh_find_book_by_id(bs, tr.book_id) # None)
         IN [items |-> [i \in 1..Len(found) |->
                          [book |-> dh_find_book_by_id(bs, found[i].book_id),
                           due_date |-> found[i].due_date,
                           transaction_id |-> found[i].id,
                           is_overdue |-> is_overdue(found[i], t),
                           fine |-> calculate_fine(found[i], t).fine]],
             error |-> NoError, books |-> bs, transactions |-> ts]

\* get_overdue_books that saves each transaction with the fine it computed.
get_overdue_books_persisting(bs, us, ts, cu, t) ==
    IF ~is_librarian(cu)
    THEN [items |-> <<>>, error |-> "Only librarians can view overdue books.",
          books |-> bs, transactions |-> ts]
    ELSE LET overdue == dh_get_overdue_transactions(ts, t)
             found == SelectSeq(overdue,
                          LAMBDA tr : /\ dh_find_book_by_id(bs, tr.book_id) # None
                                      /\ dh_find_user_by_id(us, tr.user_id) # None)
         IN [items |-> [i \in 1..Len(found) |->
                          [transaction |-> calculate_fine(found[i], t),
                           book |-> dh_find_book_by_id(bs, found[i].book_id),
                           user |-> dh_find_user_by_id(us, found[i].user_id),
                           fine |-> calculate_fine(found[i], t).fine]],
             error |-> NoError, books |-> bs,
             transactions |->
                 [i \in 1..Len(ts) |->
                     IF \E k \in 1..Len(found) : found[k].id = ts[i].id
                     THEN Transaction_to_dict(
                              calculate_fine(Transaction_from_dict(ts[i], t), t))
                     ELSE ts[i]]]

\* LibraryService.get_overdue_books: the entries returned and the files as
\* the method leaves them (it calls no method of the data handler that
\* writes).
get_overdue_books(bs, us, ts, cu, t) ==
    IF ~is_librarian(cu)
    THEN [items |-> <<>>, error |-> "Only librarians can view overdue books.",
          books |-> bs, transactions |-> ts]
    ELSE LET overdue == dh_get_overdue_transactions(ts, t)
             found == SelectSeq(overdue,
                          LAMBDA tr : /\ dh_find_book_by_id(bs, tr.book_id) # None
                                      /\ dh_find_user_by_id(us, tr.user_id) # None)
         IN [items |-> [i \in 1..Len(found) |->
                          [transaction |-> calculate_fine(found[i], t),
                           book |-> dh_find_book_by_id(bs, found[i].book_id),
                           user |-> dh_find_user_by_id(us, found[i].user_id),
                           fine |-> calculate_fine(found[i], t).fine]],
             error |-> NoError, books |-> bs, transactions |-> ts]

\* LibraryService.search_books
search_books(bs, query, field) == dh_search_books(bs, query, field)

\* LibraryService.get_all_books
get_all_books(bs) == dh_get_all_books(bs)

(***************************************************************************)
(* system.py: the librarian menu's "Add Book", the caller of add_book.     *)
(***************************************************************************)
\* str.strip(): the text without its leading and trailing blanks.
Strip(s) ==
    LET inked == {i \in 1..Len(s) : s[i] # " "}
    IN IF inked = {} THEN <<>>
       ELSE SubSeq(s, CHOOSE i \in inked : \A j \in inked : i <= j,
                      CHOOSE i \in inked : \A j \in inked : j <= i)

\* The value of a decimal digit.
DigitValue(c) ==
    CASE c = "0" -> 0 [] c = "1" -> 1 [] c = "2" -> 2 [] c = "3" -> 3
      [] c = "4" -> 4 [] c = "5" -> 5 [] c = "6" -> 6 [] c = "7" -> 7
      [] c = "8" -> 8 [] c = "9" -> 9

\* int(s) succeeds: an optional sign and decimal digits.
IsDigits(s) ==
    s # <<>> /\ \A i \in 1..Len(s) :
                   s[i] \in {"0", "1", "2", "3", "4", "5", "6", "7", "8", "9"}
IsInt(s) ==
    IsDigits(s) \/ (Len(s) > 1 /\ s[1] \in {"-", "+"} /\ IsDigits(Tail(s)))

\* int(s) for a text for which it succeeds.
IntOf(s) ==
    LET digits == IF IsDigits(s) THEN s ELSE Tail(s)
        value[k \in 0..Len(digits)] ==
            IF k = 0 THEN 0 ELSE 10 * value[k - 1] + DigitValue(digits[k])
    IN IF s[1] = "-" THEN 0 - value[Len(digits)] ELSE value[Len(digits)]

\* The number of copies _add_book passes on for the text typed in: 1 for a
\* blank, for a text that is no number and for a number below 1.
ParseCopies(typed) ==
    LET text == Strip(typed)
    IN IF text = <<>> THEN 1
       ELSE IF ~IsInt(text) THEN 1
       ELSE IF IntOf(text) < 1 THEN 1
       ELSE IntOf(text)

\* _add_book that passes the texts on as they were typed.
system_add_book_unstripped(bs, cu, id, title, author, isbn, copies) ==
    IF title = <<>> \/ author = <<>> \/ isbn = <<>>
    THEN [called |-> FALSE, msg |-> "Title, author, and ISBN are required.",
          books |-> bs]
    ELSE LET r == add_book(bs, cu, id, title, author, isbn, ParseCopies(copies))
         IN [called |-> TRUE, msg |-> r.msg, books |-> r.books]

\* LibrarySystem._add_book for the texts typed in; called tells whether
\* add_book was called.
system_add_book(bs, cu, id, title, author, isbn, copies) ==
    IF Strip(title) = <<>> \/ Strip(author) = <<>> \/ Strip(isbn) = <<>>
    THEN [called |-> FALSE, msg |-> "Title, author, and ISBN are required.",
          books |-> bs]
    ELSE LET r == add_book(bs, cu, id, Strip(title), Strip(author), Strip(isbn),
                           ParseCopies(copies))
         IN [called |-> TRUE, msg |-> r.msg, books |-> r.books]

(***************************************************************************)
(* The state machine: one action per call of the public methods.  A call   *)
(* that fails leaves every file as it was, so it is a stuttering step; its *)
(* outcome is the value of the method's operator in the state of the call. *)
(***************************************************************************)
\* The inputs the calls are made with.  The principals are registered in
\* the order of their k, admin first as LibrarySystem.__init__ does; the
\* lending logic finds a user by id or by name, never by position.
Registrations ==
    { [k |-> 1, username |-> <<"a">>, role |-> "admin"],
      [k |-> 2, username |-> <<"b">>, role |-> "librarian"],
      [k |-> 3, username |-> <<"m">>, role |-> "member"] }
Usernames == {r.username : r \in Registrations}
Passwords == {"pw", "bad"}
Titles == {<<"t">>}
Authors == {<<"x">>}
Isbns == {<<"1">>, <<"1", "2">>}
BookIds == 1..MaxBookIds
Fields == {NoField, "title", "author", "isbn", "year"}

\* r is registered only after the principals of S that precede it.
InOrder(S, r) ==
    \A q \in S : q.k < r.k => \E i \in 1..Len(users) : users[i].username = q.username

\* The processes that run the program on the one data directory.
Procs == 1..NumProcs

\* A process between two calls of the service, its session bound to cu
\* (Authentication.current_user of that process).
IdleProc(cu) == [pc |-> "idle", cu |-> cu, call |-> None]

\* DataHandler.__init__ on a new data directory, Authentication.__init__.
Init ==
    /\ books = <<>>
    /\ users = <<>>
    /\ transactions = <<>>
    /\ current_user = None
    /\ now = 0
    /\ nextBookId = 1
    /\ procs = [p \in Procs |-> IdleProc(None)]

\* Time passes between two calls, up to the clock value limit.
Tick(limit) ==
    /\ now < limit
    /\ now' = now + 1
    /\ UNCHANGED <<books, users, transactions, current_user, nextBookId, procs>>

Register(username, password, role) ==
    LET r == register_user(users, Len(users) + 1, username, password, role)
    IN /\ users' = r.users
       /\ UNCHANGED <<books, transactions, current_user, now, nextBookId, procs>>

Login(username, password) ==
    LET r == login(users, current_user, username, password)
    IN /\ current_user' = r.current_user
       /\ UNCHANGED <<books, users, transactions, now, nextBookId, procs>>

Logout ==
    LET r == logout(current_user)
    IN /\ current_user' = r.current_user
       /\ UNCHANGED <<books, users, transactions, now, nextBookId, procs>>

ChangePassword(current_password, new_password) ==
    LET r == change_password(users, current_user, current_password, new_password)
    IN /\ users' = r.users
       /\ current_user' = r.current_user
       /\ UNCHANGED <<books, transactions, now, nextBookId, procs>>

AddBook(title, author, isbn, copies) ==
    LET r == add_book(books, current_user, nextBookId, title, author, isbn, copies)
        created == Len(r.books) > Len(books)
    IN /\ created => nextBookId <= MaxBookIds
       /\ \A i \in 1..Len(r.books) : r.books[i].total_copies <= MaxTotalCopies
       /\ books' = r.books
       /\ nextBookId' = IF created THEN nextBookId + 1 ELSE nextBookId
       /\ UNCHANGED <<users, transactions, current_user, now, procs>>

RemoveBook(book_id) ==
    LET r == remove_book(books, transactions, current_user, book_id, now)
    IN /\ books' = r.books
       /\ UNCHANGED <<users, transactions, current_user, now, nextBookId, procs>>

IssueBook(book_id, days) ==
    LET r == issue_book(books, transactions, current_user, Len(transactions) + 1,
                        book_id, days, now)
    IN /\ Len(r.transactions) <= MaxTransactions
       /\ books' = r.books
       /\ transactions' = r.transactions
       /\ UNCHANGED <<users, current_user, now, nextBookId, procs>>

ReturnBook(book_id) ==
    LET r == return_book(books, transactions, current_user, book_id, now)
    IN /\ books' = r.books
       /\ transactions' = r.transactions
       /\ UNCHANGED <<users, current_user, now, nextBookId, procs>>

\* The attributes get_user_books attaches are put on Book objects that
\* from_dict built for this call, and the fines are computed on Transaction
\* objects built the same way.
GetUserBooks ==
    LET r == get_user_books(books, transactions, current_user, now)
    IN /\ books' = r.books
       /\ transactions' = r.transactions
       /\ UNCHANGED <<users, current_user, now, nextBookId, procs>>

GetOverdueBooks ==
    LET r == get_overdue_books(books, users, transactions, current_user, now)
    IN /\ books' = r.books
       /\ transactions' = r.transactions
       /\ UNCHANGED <<users, current_user, now, nextBookId, procs>>

SearchBooks(query, field) ==
    LET r == search_books(books, query, field)
    IN /\ Len(r) <= Len(books)
       /\ UNCHANGED vars

GetAllBooks ==
    LET r == get_all_books(books)
    IN /\ Len(r) = Len(books)
       /\ UNCHANGED vars

Next ==
    \/ Tick(MaxNow)
    \/ \E r \in Registrations : InOrder(Registrations, r) /\ Register(r.username, "pw", r.role)
    \/ \E u \in Usernames, p \in Passwords : Login(u, p)
    \/ Logout
    \/ \E t \in Titles, a \in Authors, i \in Isbns, c \in 1..MaxCopies : AddBook(t, a, i, c)
    \/ \E b \in BookIds : RemoveBook(b)
    \/ \E b \in BookIds, d \in 1..MaxLoanDays : IssueBook(b, d)
    \/ \E b \in BookIds : ReturnBook(b)
    \/ GetUserBooks
    \/ GetOverdueBooks
    \/ \E q \in Isbns, f \in Fields : SearchBooks(q, f)
    \/ GetAllBooks

Spec == Init /\ [][Next]_vars

(***************************************************************************)
(* The same program over a longer stretch of time and a smaller catalog:   *)
(* loans run past their due date by up to MaxFineDays - 1 days.            *)
(***************************************************************************)
FineRegistrations == {r \in Registrations : r.role # "librarian"}

NextFine ==
    \/ Tick(MaxFineNow)
    \/ \E r \in FineRegistrations :
          InOrder(FineRegistrations, r) /\ Register(r.username, "pw", r.role)
    \/ \E r \in FineRegistrations : Login(r.username, "pw")
    \/ AddBook(<<"t">>, <<"x">>, <<"1">>, 1)
    \/ RemoveBook(1)
    \/ IssueBook(1, 1)
    \/ ReturnBook(1)
    \/ GetUserBooks
    \/ GetOverdueBooks
    \/ \E q \in Isbns, f \in Fields : SearchBooks(q, f)
    \/ GetAllBooks

SpecFine == Init /\ [][NextFine]_vars

(***************************************************************************)
(* The accounts alone: registrations under names that differ in letter     *)
(* case only, logins with right and wrong passwords, password changes.     *)
(***************************************************************************)
AuthNames == {<<"a">>, <<"A">>, <<"b">>, <<"B">>}
AuthRoles == {"member", "librarian"}
StoredPasswords == {"pw", "new"}
TriedPasswords == StoredPasswords \cup {"bad"}

NextAuth ==
    \/ \E u \in AuthNames, r \in AuthRoles : Register(u, "pw", r)
    \/ \E u \in AuthNames, p \in TriedPasswords : Login(u, p)
    \/ Logout
    \/ \E c \in TriedPasswords, n \in StoredPasswords : ChangePassword(c, n)

SpecAuth == Init /\ [][NextAuth]_vars

(***************************************************************************)
(* The catalog alone: an admin adds and removes books whose titles,        *)
(* authors and isbns mix letter cases, and anyone searches them.           *)
(***************************************************************************)
SearchTitles == {<<"A", "b">>, <<"b">>}
SearchAuthors == {<<"X">>, <<"a">>}
SearchIsbns == {<<"1">>, <<"x", "2">>, <<"X", "2">>}
Queries == {<<>>, <<"a">>, <<"A", "B">>, <<"B">>, <<"b", "a">>, <<"x">>, <<"X">>, <<"2">>}

NextSearch ==
    \/ Register(<<"a">>, "pw", "admin")
    \/ Login(<<"a">>, "pw")
    \/ \E t \in SearchTitles, a \in SearchAuthors, i \in SearchIsbns : AddBook(t, a, i, 1)
    \/ \E b \in BookIds : RemoveBook(b)
    \/ \E q \in Queries, f \in Fields : SearchBooks(q, f)
    \/ GetAllBooks

SpecSearch == Init /\ [][NextSearch]_vars

(***************************************************************************)
(* The librarian menu: books are added with the texts typed at the         *)
(* prompts, blank ones among them.                                         *)
(***************************************************************************)
TypedTitles == {<<>>, <<" ">>, <<"t">>, <<" ", "t">>}
TypedAuthors == {<<>>, <<"x">>}
TypedIsbns == {<<>>, <<" ">>, <<"1">>, <<"1", "2", " ">>}
TypedCopies == {<<>>, <<"0">>, <<"2">>, <<"x">>, <<"-", "1">>}

\* "Add Book" of the librarian menu.
SystemAddBook(title, author, isbn, copies) ==
    LET r == system_add_book(books, current_user, nextBookId, title, author,
                             isbn, copies)
        created == Len(r.books) > Len(books)
    IN /\ created => nextBookId <= MaxBookIds
       /\ \A i \in 1..Len(r.books) : r.books[i].total_copies <= MaxTotalCopies
       /\ books' = r.books
       /\ nextBookId' = IF created THEN nextBookId + 1 ELSE nextBookId
       /\ UNCHANGED <<users, transactions, current_user, now, procs>>

NextMenu ==
    \/ \E r \in FineRegistrations :
          InOrder(FineRegistrations, r) /\ Register(r.username, "pw", r.role)
    \/ \E r \in FineRegistrations : Login(r.username, "pw")
    \/ Logout
    \/ \E t \in TypedTitles, a \in TypedAuthors, i \in TypedIsbns, c \in TypedCopies :
          SystemAddBook(t, a, i, c)
    \/ \E b \in BookIds : RemoveBook(b)
    \/ \E b \in BookIds : IssueBook(b, 1)
    \/ \E b \in BookIds : ReturnBook(b)

SpecMenu == Init /\ [][NextMenu]_vars

(***************************************************************************)
(* issue_book and return_book step by step.  A process runs one call at a  *)
(* time; each read and each write of a file by the data handler is a step  *)
(* of its own, in the order of the statements of the method.  procs[p]     *)
(* holds what process p keeps in memory: its session cu and, during a      *)
(* call, the objects the method has built so far.                          *)
(***************************************************************************)
\* Process p moves on with rec in its memory; the files are left alone.
ProcStep(p, rec) ==
    /\ procs' = [procs EXCEPT ![p] = rec]
    /\ UNCHANGED <<books, users, transactions, current_user, now, nextBookId>>

\* The uuid4 that process p draws for a new record: no two records get
\* the same one.
NewId(p) == Len(transactions) * NumProcs + p

\* Authentication.login in process p.
ProcLogin(p, username, password) ==
    /\ procs[p].pc = "idle"
    /\ ProcStep(p, IdleProc(login(users, procs[p].cu, username, password).current_user))

\* add_book and remove_book by process p while no call is in progress.
ProcAddBook(p, title, author, isbn, copies) ==
    LET r == add_book(books, procs[p].cu, nextBookId, title, author, isbn, copies)
        created == Len(r.books) > Len(books)
    IN /\ \A q \in Procs : procs[q].pc = "idle"
       /\ created => nextBookId <= MaxBookIds
       /\ \A i \in 1..Len(r.books) : r.books[i].total_copies <= MaxTotalCopies
       /\ books' = r.books
       /\ nextBookId' = IF created THEN nextBookId + 1 ELSE nextBookId
       /\ UNCHANGED <<users, transactions, current_user, now, procs>>

ProcRemoveBook(p, book_id) ==
    LET r == remove_book(books, transactions, procs[p].cu, book_id, now)
    IN /\ \A q \in Procs : procs[q].pc = "idle"
       /\ books' = r.books
       /\ UNCHANGED <<users, transactions, current_user, now, nextBookId, procs>>

\* issue_book whose test of availability lets a book with no copy through.
IssueBookBegin_off_by_one(p, book_id, days) ==
    LET cu == procs[p].cu
        book == dh_find_book_by_id(books, book_id)
    IN /\ procs[p].pc = "idle"
       /\ Len(transactions) + Cardinality({q \in Procs : procs[q].pc # "idle"})
             < MaxTransactions
       /\ IF ~is_authenticated(cu) THEN UNCHANGED vars
          ELSE IF book = None THEN UNCHANGED vars
          ELSE IF book.available_copies < 0 THEN UNCHANGED vars
          ELSE ProcStep(p, [pc |-> "found", cu |-> cu,
                            call |-> [kind |-> "issue", book_id |-> book_id,
                                      days |-> days, book |-> book]])

\* issue_book up to its test of availability: the session is tested and
\* books.json is read by find_book_by_id.  A call that fails ends here.
IssueBookBegin(p, book_id, days) ==
    LET cu == procs[p].cu
        book == dh_find_book_by_id(books, book_id)
    IN /\ procs[p].pc = "idle"
       /\ Len(transactions) + Cardinality({q \in Procs : procs[q].pc # "idle"})
             < MaxTransactions
       /\ IF ~is_authenticated(cu) THEN UNCHANGED vars
          ELSE IF book = None THEN UNCHANGED vars
          ELSE IF book.available_copies <= 0 THEN UNCHANGED vars
          ELSE ProcStep(p, [pc |-> "found", cu |-> cu,
                            call |-> [kind |-> "issue", book_id |-> book_id,
                                      days |-> days, book |-> book]])

\* issue_book: transactions.json is read by get_user_transactions, the
\* user's loans are scanned and the Transaction is built.
IssueBookScan(p) ==
    LET cu == procs[p].cu
        call == procs[p].call
        active == dh_get_user_transactions(transactions, cu.id, TRUE, now)
    IN /\ procs[p].pc = "found"
       /\ call.kind = "issue"
       /\ IF \E i \in 1..Len(active) : active[i].book_id = call.book_id
          THEN ProcStep(p, IdleProc(cu))
          ELSE ProcStep(p, [pc |-> "made", cu |-> cu,
                            call |-> [kind |-> "issue", book_id |-> call.book_id,
                                      book |-> call.book,
                                      tr |-> Transaction(NewId(p), call.book_id, cu.id,
                                                         "issue", call.days, now)]])

\* return_book up to find_book_by_id.
ReturnBookBegin(p, book_id) ==
    LET cu == procs[p].cu
        book == dh_find_book_by_id(books, book_id)
    IN /\ procs[p].pc = "idle"
       /\ IF ~is_authenticated(cu) THEN UNCHANGED vars
          ELSE IF book = None THEN UNCHANGED vars
          ELSE ProcStep(p, [pc |-> "found", cu |-> cu,
                            call |-> [kind |-> "return", book_id |-> book_id,
                                      book |-> book]])

\* return_book: transactions.json is read by get_user_transactions, the
\* user's loan of the book is looked for, closed and fined.
ReturnBookScan(p) ==
    LET cu == procs[p].cu
        call == procs[p].call
        active == dh_get_user_transactions(transactions, cu.id, TRUE, now)
        k == FirstIndex({i \in 1..Len(active) : active[i].book_id = call.book_id})
    IN /\ procs[p].pc = "found"
       /\ call.kind = "return"
       /\ IF k = 0
          THEN ProcStep(p, IdleProc(cu))
          ELSE ProcStep(p, [pc |-> "made", cu |-> cu,
                            call |-> [kind |-> "return", book_id |-> call.book_id,
                                      book |-> call.book,
                                      tr |-> calculate_fine(
                                                 [active[k] EXCEPT
                                                     !.return_date = Datetime(now)],
                                                 now)]])

\* add_transaction / update_transaction: _read_data of transactions.json.
TransactionFileRead(p) ==
    LET call == procs[p].call
    IN /\ procs[p].pc = "made"
       /\ ProcStep(p, [pc |-> "tx_read", cu |-> procs[p].cu,
                       call |-> [kind |-> call.kind, book_id |-> call.book_id,
                                 book |-> call.book, tr |-> call.tr,
                                 file |-> transactions]])

\* The write of transactions.json that writes books.json in the same step.
TransactionFileWrite_with_book(p) ==
    LET call == procs[p].call
        book == [call.book EXCEPT !.available_copies =
                    IF call.kind = "issue" THEN @ - 1 ELSE @ + 1]
    IN /\ procs[p].pc = "tx_read"
       /\ transactions' = IF call.kind = "issue"
                          THEN dh_add_transaction(call.file, call.tr)
                          ELSE dh_update_transaction(call.file, call.tr)
       /\ books' = dh_update_book(books, book)
       /\ procs' = [procs EXCEPT ![p] =
                       [pc |-> "tx_written", cu |-> procs[p].cu,
                        call |-> [kind |-> call.kind, book_id |-> call.book_id,
                                  book |-> call.book, tr |-> call.tr]]]
       /\ UNCHANGED <<users, current_user, now, nextBookId>>

\* add_transaction / update_transaction: _write_data of transactions.json,
\* the file as read with the record appended or replaced.
TransactionFileWrite(p) ==
    LET call == procs[p].call
    IN /\ procs[p].pc = "tx_read"
       /\ transactions' = IF call.kind = "issue"
                          THEN dh_add_transaction(call.file, call.tr)
                          ELSE dh_update_transaction(call.file, call.tr)
       /\ procs' = [procs EXCEPT ![p] =
                       [pc |-> "tx_written", cu |-> procs[p].cu,
                        call |-> [kind |-> call.kind, book_id |-> call.book_id,
                                  book |-> call.book, tr |-> call.tr]]]
       /\ UNCHANGED <<books, users, current_user, now, nextBookId>>

\* The change of available_copies made on the record as books.json holds it
\* now, not on the Book object read at the start of the call.
BookFileRead_fresh(p) ==
    LET call == procs[p].call
        fresh == dh_find_book_by_id(books, call.book_id)
    IN /\ procs[p].pc = "tx_written"
       /\ ProcStep(p, [pc |-> "bk_read", cu |-> procs[p].cu,
                       call |-> [kind |-> call.kind, book_id |-> call.book_id,
                                 book |-> [fresh EXCEPT !.available_copies =
                                              IF call.kind = "issue" THEN @ - 1
                                              ELSE @ + 1],
                                 tr |-> call.tr, file |-> books]])

\* book.available_copies -= 1 (+= 1 in return_book) on the Book object read
\* at the start of the call, then update_book: _read_data of books.json.
BookFileRead(p) ==
    LET call == procs[p].call
    IN /\ procs[p].pc = "tx_written"
       /\ ProcStep(p, [pc |-> "bk_read", cu |-> procs[p].cu,
                       call |-> [kind |-> call.kind, book_id |-> call.book_id,
                                 book |-> [call.book EXCEPT !.available_copies =
                                              IF call.kind = "issue" THEN @ - 1
                                              ELSE @ + 1],
                                 tr |-> call.tr, file |-> books]])

\* update_book: _write_data of books.json; the call returns.
BookFileWrite(p) ==
    LET call == procs[p].call
    IN /\ procs[p].pc = "bk_read"
       /\ books' = dh_update_book(call.file, call.book)
       /\ procs' = [procs EXCEPT ![p] = IdleProc(procs[p].cu)]
       /\ UNCHANGED <<users, transactions, current_user, now, nextBookId>>

\* Process p stops in the middle of a call and the program is started
\* again: the files stay as written so far, the session starts unbound.
Stop(p) ==
    /\ procs[p].pc # "idle"
    /\ ProcStep(p, IdleProc(None))

(***************************************************************************)
(* One process whose calls may stop at any step.                           *)
(***************************************************************************)
NextStop ==
    \/ \E r \in FineRegistrations :
          InOrder(FineRegistrations, r) /\ Register(r.username, "pw", r.role)
    \/ \E r \in FineRegistrations : ProcLogin(1, r.username, "pw")
    \/ ProcAddBook(1, <<"t">>, <<"x">>, <<"1">>, 1)
    \/ \E b \in BookIds : ProcRemoveBook(1, b)
    \/ \E b \in BookIds : IssueBookBegin(1, b, 1)
    \/ IssueBookScan(1)
    \/ \E b \in BookIds : ReturnBookBegin(1, b)
    \/ ReturnBookScan(1)
    \/ TransactionFileRead(1)
    \/ TransactionFileWrite(1)
    \/ BookFileRead(1)
    \/ BookFileWrite(1)
    \/ Stop(1)

SpecStop == Init /\ [][NextStop]_vars

(***************************************************************************)
(* Several processes on the one data directory, none of which stops: their *)
(* issue_book calls interleave step by step.                               *)
(***************************************************************************)
NextShared ==
    \/ \E r \in Registrations : InOrder(Registrations, r) /\ Register(r.username, "pw", r.role)
    \/ \E p \in Procs, u \in Usernames : ProcLogin(p, u, "pw")
    \/ \E p \in Procs, c \in 1..MaxCopies : ProcAddBook(p, <<"t">>, <<"x">>, <<"1">>, c)
    \/ \E p \in Procs, b \in BookIds : IssueBookBegin(p, b, 1)
    \/ \E p \in Procs : IssueBookScan(p)
    \/ \E p \in Procs : TransactionFileRead(p)
    \/ \E p \in Procs : TransactionFileWrite(p)
    \/ \E p \in Procs : BookFileRead(p)
    \/ \E p \in Procs : BookFileWrite(p)

SpecShared == Init /\ [][NextShared]_vars

(***************************************************************************)
(* Vocabulary of the properties, read off the stored records themselves.   *)
(***************************************************************************)
\* The messages of the error kinds.
Unauthorized ==
    {"Only librarians can add books.", "Only librarians can remove books.",
     "Only librarians can view overdue books."}
NotLoggedIn ==
    {"You must be logged in to issue a book.", "You must be logged in to return a book.",
     "You must be logged in to view your books."}
NotFound == "Book not found."
NoCopiesAvailable == "No copies of this book are available."
AlreadyIssued == "You already have this book issued."
NotIssuedToUser == "You do not have this book issued."
BookInUse == "Cannot remove book that is currently issued."

\* A stored transaction record is active: an issue that has no return date.
ActiveRecord(d) == d.transaction_type = "issue" /\ d.return_date = None

\* The positions of the active loans of book b, and of user u's among them.
ActiveOfBook(ts, b) == {i \in 1..Len(ts) : ActiveRecord(ts[i]) /\ ts[i].book_id = b}
ActiveOfPair(ts, u, b) == {i \in ActiveOfBook(ts, b) : ts[i].user_id = u}

\* Book b is stored; its record.
HasBook(bs, b) == \E i \in 1..Len(bs) : bs[i].id = b
BookRecord(bs, b) == bs[CHOOSE i \in 1..Len(bs) : bs[i].id = b]

\* A principal is bound to the session.
Bound == current_user # None

\* Arguments of the calls.
LoanDays == 1..MaxLoanDays
CopyCounts == 1..MaxCopies

(***************************************************************************)
(* C1.  In every state reached from the empty store by completed add_book  *)
(* (copies >= 1), remove_book, issue_book and return_book calls, every     *)
(* stored book has 0 <= available_copies <= total_copies.                  *)
(***************************************************************************)
Thm_C1_AvailableWithinTotal ==
    \A i \in 1..Len(books) :
        /\ 0 <= books[i].available_copies
        /\ books[i].available_copies <= books[i].total_copies

\* A book with no copy left while an earlier loan has already been returned.
Wit_C1_IssuedOutAfterReturn ==
    /\ \E i \in 1..Len(books) : books[i].available_copies = 0
    /\ \E j \in 1..Len(transactions) : transactions[j].return_date # None

(***************************************************************************)
(* C3.  In every reachable state there is at most one active transaction   *)
(* for each (user_id, book_id) pair.                                       *)
(***************************************************************************)
Thm_C3_OneActivePerPair ==
    \A i, j \in 1..Len(transactions) :
        (/\ i < j
         /\ ActiveRecord(transactions[i])
         /\ ActiveRecord(transactions[j]))
        => ~(/\ transactions[i].user_id = transactions[j].user_id
             /\ transactions[i].book_id = transactions[j].book_id)

\* A user holds a book that the same user borrowed and returned before.
Wit_C3_HeldAgainAfterReturn ==
    \E i, j \in 1..Len(transactions) :
        /\ transactions[i].return_date # None
        /\ ActiveRecord(transactions[j])
        /\ transactions[i].user_id = transactions[j].user_id
        /\ transactions[i].book_id = transactions[j].book_id

(***************************************************************************)
(* C4, as stated.  Whenever the acting user already holds an active        *)
(* transaction for an existing book, a further issue_book by that user for *)
(* the same book is rejected with AlreadyIssued, also when the book has no *)
(* available copy left.                                                    *)
(***************************************************************************)
CE_C4_HolderAlwaysAlreadyIssued ==
    \A b \in BookIds, d \in LoanDays :
        (Bound /\ HasBook(books, b) /\ ActiveOfPair(transactions, current_user.id, b) # {})
        => issue_book(books, transactions, current_user, Len(transactions) + 1,
                      b, d, now).msg = AlreadyIssued

(***************************************************************************)
(* C4, amended.  Whenever the acting user already holds an active          *)
(* transaction for an existing book, a further issue_book by that user for *)
(* the same book fails and changes nothing: with AlreadyIssued when the    *)
(* book has an available copy, with NoCopiesAvailable when it has none     *)
(* (availability is tested first).                                         *)
(***************************************************************************)
Thm_C4_HolderIsRejected ==
    \A b \in BookIds, d \in LoanDays :
        (Bound /\ HasBook(books, b) /\ ActiveOfPair(transactions, current_user.id, b) # {})
        => LET r == issue_book(books, transactions, current_user,
                               Len(transactions) + 1, b, d, now)
           IN /\ ~r.ok
              /\ r.books = books
              /\ r.transactions = transactions
              /\ r.msg = IF BookRecord(books, b).available_copies > 0
                         THEN AlreadyIssued
                         ELSE NoCopiesAvailable

\* The bound user holds a book of which a copy is still available, and the
\* call is rejected with AlreadyIssued.
Wit_C4_HolderWithCopyLeft ==
    /\ Bound
    /\ \E b \in BookIds :
         /\ HasBook(books, b)
         /\ ActiveOfPair(transactions, current_user.id, b) # {}
         /\ BookRecord(books, b).available_copies > 0
         /\ issue_book(books, transactions, current_user, Len(transactions) + 1,
                       b, 1, now).msg = AlreadyIssued

(***************************************************************************)
(* C5.  For a librarian or admin and an existing book, remove_book fails   *)
(* with BookInUse exactly when an active transaction references the book,  *)
(* and otherwise succeeds and the book is no longer stored; the number of  *)
(* available copies plays no part.                                         *)
(***************************************************************************)
Thm_C5_RemoveBlockedIffOnLoan ==
    \A b \in BookIds :
        (Bound /\ current_user.role \in {"librarian", "admin"} /\ HasBook(books, b))
        => LET r == remove_book(books, transactions, current_user, b, now)
           IN IF ActiveOfBook(transactions, b) # {}
              THEN ~r.ok /\ r.msg = BookInUse /\ r.books = books
              ELSE r.ok /\ ~HasBook(r.books, b)
                        /\ \A i \in 1..Len(books) :
                              books[i].id # b => HasBook(r.books, books[i].id)

\* A librarian or admin is bound and a book is on loan while another copy
\* of it is available, in a store from which a book was removed before.
Wit_C5_OnLoanWithCopyLeft ==
    /\ Bound
    /\ current_user.role \in {"librarian", "admin"}
    /\ nextBookId > Len(books) + 1
    /\ \E b \in BookIds :
         /\ HasBook(books, b)
         /\ ActiveOfBook(transactions, b) # {}
         /\ BookRecord(books, b).available_copies > 0

(***************************************************************************)
(* C6.  Wherever issue_book(b) by user u succeeds, a return_book(b) by u   *)
(* that follows it at once succeeds and leaves available_copies and        *)
(* total_copies of b as they were before the issue, and u with no active   *)
(* transaction for b.                                                      *)
(***************************************************************************)
Thm_C6_IssueThenReturnRestores ==
    \A b \in BookIds, d \in LoanDays :
        LET r1 == issue_book(books, transactions, current_user,
                             Len(transactions) + 1, b, d, now)
        IN r1.ok =>
             \A t \in now..MaxNow :
                 LET r2 == return_book(r1.books, r1.transactions, current_user, b, t)
                 IN /\ r2.ok
                    /\ BookRecord(r2.books, b).available_copies
                         = BookRecord(books, b).available_copies
                    /\ BookRecord(r2.books, b).total_copies
                         = BookRecord(books, b).total_copies
                    /\ ActiveOfPair(r2.transactions, current_user.id, b) = {}

\* A loan was returned in the second it was issued, and its book has all
\* its copies again; the bound user can issue it once more.
Wit_C6_ReturnedAtOnce ==
    /\ Bound
    /\ \E i \in 1..Len(transactions) :
         /\ transactions[i].return_date = transactions[i].transaction_date
         /\ HasBook(books, transactions[i].book_id)
         /\ BookRecord(books, transactions[i].book_id).available_copies
              = BookRecord(books, transactions[i].book_id).total_copies
         /\ issue_book(books, transactions, current_user, Len(transactions) + 1,
                       transactions[i].book_id, 1, now).ok

(***************************************************************************)
(* C2.  The fine a successful return_book records on the transaction and   *)
(* reports is 0.50 for every whole day between due_date and the return     *)
(* when the return is after due_date, and 0 when it is on time.            *)
(***************************************************************************)
\* The fine owed for a loan due at clock value due and returned at ret.
FineOwed(due, ret) ==
    IF ret > due THEN FinePerDay * ((ret - due) \div UnitsPerDay) ELSE 0

CE_C2_FineAtReturn ==
    \A b \in BookIds :
        LET r == return_book(books, transactions, current_user, b, now)
        IN r.ok =>
             \A i \in ActiveOfPair(transactions, current_user.id, b) :
                 LET owed == FineOwed(Strptime(transactions[i].due_date).t, now)
                 IN /\ r.fine = owed
                    /\ r.transactions[i].fine = owed

(***************************************************************************)
(* C7.  Once a transaction has return_date set, every later computation of *)
(* its fine, at any later clock value, gives the fine stored at the return,*)
(* and the stored record never changes again.                              *)
(***************************************************************************)
FrozenFineRead ==
    \A i \in 1..Len(transactions) :
        transactions[i].return_date # None =>
            \A t \in now..MaxFineNow :
                calculate_fine(Transaction_from_dict(transactions[i], t), t).fine
                    = transactions[i].fine

ReturnedRecordKept ==
    \A i \in 1..Len(transactions) :
        transactions[i].return_date # None =>
            /\ i <= Len(transactions')
            /\ transactions'[i] = transactions[i]

Thm_C7_FineFrozenAfterReturn == []FrozenFineRead /\ [][ReturnedRecordKept]_vars

\* A returned loan whose due date lies more than a day back.
Wit_C7_ReturnedAndLongPastDue ==
    \E i \in 1..Len(transactions) :
        /\ transactions[i].return_date # None
        /\ now >= Strptime(transactions[i].due_date).t + UnitsPerDay

(***************************************************************************)
(* C8.  issue_book on an existing book by an authenticated principal fails *)
(* with NoCopiesAvailable whenever available_copies <= 0; so once as many  *)
(* loans of a book are active as it has copies, an issue by any further    *)
(* user fails.                                                             *)
(***************************************************************************)
Thm_C8_NoCopiesAvailable ==
    \A b \in BookIds, d \in LoanDays :
        (/\ Bound
         /\ HasBook(books, b)
         /\ \/ BookRecord(books, b).available_copies <= 0
            \/ Cardinality(ActiveOfBook(transactions, b))
                 >= BookRecord(books, b).total_copies)
        => LET r == issue_book(books, transactions, current_user,
                               Len(transactions) + 1, b, d, now)
           IN /\ ~r.ok
              /\ r.msg = NoCopiesAvailable
              /\ r.books = books
              /\ r.transactions = transactions

\* Two users hold the two copies of a book and a third user is bound.
Wit_C8_ThirdUserNoCopy ==
    /\ Bound
    /\ \E b \in BookIds :
         /\ HasBook(books, b)
         /\ BookRecord(books, b).total_copies = 2
         /\ Cardinality({transactions[i].user_id : i \in ActiveOfBook(transactions, b)}) = 2
         /\ ActiveOfPair(transactions, current_user.id, b) = {}

(***************************************************************************)
(* C9.  add_book, remove_book and get_overdue_books pass their gate        *)
(* exactly when a principal is bound whose role is librarian or admin; for *)
(* a member, or with no principal bound, add_book and remove_book fail     *)
(* with Unauthorized and the books are unchanged.                          *)
(***************************************************************************)
Thm_C9_LibrarianGate ==
    LET allowed == Bound /\ current_user.role \in {"librarian", "admin"}
        over == get_overdue_books(books, users, transactions, current_user, now)
    IN /\ \A t \in Titles, a \in Authors, i \in Isbns, c \in CopyCounts :
            LET r == add_book(books, current_user, nextBookId, t, a, i, c)
            IN IF allowed THEN r.ok /\ r.msg \notin Unauthorized
               ELSE ~r.ok /\ r.msg \in Unauthorized /\ r.books = books
       /\ \A b \in BookIds :
            LET r == remove_book(books, transactions, current_user, b, now)
            IN IF allowed THEN r.msg \notin Unauthorized
               ELSE ~r.ok /\ r.msg \in Unauthorized /\ r.books = books
       /\ IF allowed THEN over.error = NoError
          ELSE over.error \in Unauthorized /\ over.items = <<>>

\* A member is bound while the catalog holds a book that is not on loan.
Wit_C9_MemberAtTheGate ==
    /\ Bound
    /\ current_user.role = "member"
    /\ \E i \in 1..Len(books) : ActiveOfBook(transactions, books[i].id) = {}

(***************************************************************************)
(* C10.  issue_book, return_book and get_user_books act for the principal  *)
(* bound at the moment of the call: with none bound the call fails and     *)
(* changes nothing, and the transactions a call creates or closes, and the *)
(* loans get_user_books lists, are those of the bound user only.           *)
(***************************************************************************)
UnboundCallsFail ==
    ~Bound =>
        /\ \A b \in BookIds, d \in LoanDays :
              LET r == issue_book(books, transactions, current_user,
                                  Len(transactions) + 1, b, d, now)
              IN ~r.ok /\ r.msg \in NotLoggedIn
                       /\ r.books = books /\ r.transactions = transactions
        /\ \A b \in BookIds :
              LET r == return_book(books, transactions, current_user, b, now)
              IN ~r.ok /\ r.msg \in NotLoggedIn
                       /\ r.books = books /\ r.transactions = transactions
        /\ LET r == get_user_books(books, transactions, current_user, now)
           IN r.error \in NotLoggedIn /\ r.items = <<>>

ListedLoansAreOwn ==
    Bound =>
        LET r == get_user_books(books, transactions, current_user, now)
        IN \A k \in 1..Len(r.items) :
              \E i \in 1..Len(transactions) :
                  /\ transactions[i].id = r.items[k].transaction_id
                  /\ transactions[i].user_id = current_user.id

WrittenLoansAreOwn ==
    transactions' # transactions =>
        /\ Bound
        /\ current_user' = current_user
        /\ Len(transactions') >= Len(transactions)
        /\ \A i \in 1..Len(transactions') :
              (i > Len(transactions) \/ transactions'[i] # transactions[i])
              => transactions'[i].user_id = current_user.id

Thm_C10_ActsForBoundPrincipal ==
    [](UnboundCallsFail /\ ListedLoansAreOwn) /\ [][WrittenLoansAreOwn]_vars

\* After a change of principal: the bound user holds a loan, another user
\* holds one too, and one of the two books was lent before the other.
Wit_C10_TwoBorrowers ==
    /\ Bound
    /\ \E i, j \in 1..Len(transactions) :
         /\ i < j
         /\ ActiveRecord(transactions[i])
         /\ ActiveRecord(transactions[j])
         /\ transactions[i].user_id # current_user.id
         /\ transactions[j].user_id = current_user.id

(***************************************************************************)
(* C11.  When a stored book has the given isbn, add_book(isbn, copies = n) *)
(* by a librarian or admin succeeds, raises total_copies and               *)
(* available_copies of that book by n, creates no book record and leaves   *)
(* every other book as it was.                                             *)
(***************************************************************************)
\* A librarian or admin is bound.
LibrarianBound == Bound /\ current_user.role \in {"librarian", "admin"}

Thm_C11_AddCopiesOfStoredIsbn ==
    \A t \in Titles, a \in Authors, i \in Isbns, c \in CopyCounts :
        (LibrarianBound /\ \E k \in 1..Len(books) : books[k].isbn = i)
        => LET r == add_book(books, current_user, nextBookId, t, a, i, c)
           IN /\ r.ok
              /\ Len(r.books) = Len(books)
              /\ \A k \in 1..Len(books) :
                    r.books[k] =
                        IF books[k].isbn = i
                        THEN [books[k] EXCEPT
                                !.total_copies = @ + c,
                                !.available_copies = @ + c]
                        ELSE books[k]

\* A librarian or admin is bound, the search for a stored isbn finds two
\* books (the one with that isbn and one whose isbn contains it), and a
\* copy of the former is on loan.
Wit_C11_TwoMatchesOneOnLoan ==
    /\ LibrarianBound
    /\ \E i \in Isbns :
         /\ Len(dh_search_books(books, i, "isbn")) = 2
         /\ \E k \in 1..Len(books) :
               /\ books[k].isbn = i
               /\ books[k].available_copies < books[k].total_copies
         /\ add_book(books, current_user, nextBookId, <<"t">>, <<"x">>, i, 1).msg
               = "Added copies of existing book"

(***************************************************************************)
(* C12.  When no stored book has the given isbn, add_book by a librarian   *)
(* or admin creates a new book with available_copies = total_copies =      *)
(* copies and leaves every stored book record as it was.                   *)
(***************************************************************************)
CE_C12_NewIsbnCreatesBook ==
    \A t \in Titles, a \in Authors, i \in Isbns, c \in CopyCounts :
        (LibrarianBound /\ \A k \in 1..Len(books) : books[k].isbn # i)
        => LET r == add_book(books, current_user, nextBookId, t, a, i, c)
           IN /\ r.ok
              /\ Len(r.books) = Len(books) + 1
              /\ r.books[Len(r.books)].isbn = i
              /\ r.books[Len(r.books)].total_copies = c
              /\ r.books[Len(r.books)].available_copies = c
              /\ \A k \in 1..Len(books) : r.books[k] = books[k]

(***************************************************************************)
(* C13.  return_book on an existing book fails with NotIssuedToUser        *)
(* whenever the acting user has no active transaction for that book, also  *)
(* when other users hold active transactions for it or the acting user     *)
(* returned it earlier; no step closes a loan of a user other than the     *)
(* bound one.                                                              *)
(***************************************************************************)
NonHolderIsRejected ==
    \A b \in BookIds :
        (Bound /\ HasBook(books, b) /\ ActiveOfPair(transactions, current_user.id, b) = {})
        => LET r == return_book(books, transactions, current_user, b, now)
           IN /\ ~r.ok
              /\ r.msg = NotIssuedToUser
              /\ r.books = books
              /\ r.transactions = transactions

ClosedLoansAreOwn ==
    \A i \in 1..Len(transactions) :
        (/\ ActiveRecord(transactions[i])
         /\ i <= Len(transactions')
         /\ ~ActiveRecord(transactions'[i]))
        => Bound /\ transactions[i].user_id = current_user.id

Thm_C13_OnlyHolderReturns == []NonHolderIsRejected /\ [][ClosedLoansAreOwn]_vars

\* The bound user returned a book earlier and holds no loan of it now,
\* while another user holds an active loan of the same book.
Wit_C13_ReturnedEarlierOtherHolds ==
    /\ Bound
    /\ \E i, j \in 1..Len(transactions) :
         /\ transactions[i].user_id = current_user.id
         /\ transactions[i].return_date # None
         /\ transactions[j].user_id # current_user.id
         /\ ActiveRecord(transactions[j])
         /\ transactions[j].book_id = transactions[i].book_id
         /\ ActiveOfPair(transactions, current_user.id, transactions[i].book_id) = {}
         /\ return_book(books, transactions, current_user,
                        transactions[i].book_id, now).msg = NotIssuedToUser

(***************************************************************************)
(* C14.  A successful issue_book(b, days) by user u adds exactly one       *)
(* transaction, of type issue, for (u, b), with no return date and         *)
(* due_date = transaction_date + days; it lowers available_copies of b by  *)
(* exactly 1 and leaves total_copies of b, every other book, every earlier *)
(* transaction and all users as they were.                                 *)
(***************************************************************************)
IssueWritesOneLoan ==
    \A b \in BookIds, d \in LoanDays \cup {DefaultLoanDays} :
        LET r == issue_book(books, transactions, current_user,
                            Len(transactions) + 1, b, d, now)
            n == Len(transactions)
        IN r.ok =>
             /\ Len(r.transactions) = n + 1
             /\ \A i \in 1..n : r.transactions[i] = transactions[i]
             /\ r.transactions[n + 1].transaction_type = "issue"
             /\ r.transactions[n + 1].user_id = current_user.id
             /\ r.transactions[n + 1].book_id = b
             /\ r.transactions[n + 1].return_date = None
             /\ r.transactions[n + 1].fine = 0
             /\ Strptime(r.transactions[n + 1].transaction_date).t
                   = (now \div MicrosPerSec) * MicrosPerSec
             /\ Strptime(r.transactions[n + 1].due_date).t
                   = Strptime(r.transactions[n + 1].transaction_date).t
                       + d * UnitsPerDay
             /\ Len(r.books) = Len(books)
             /\ \A k \in 1..Len(books) :
                   r.books[k] =
                       IF books[k].id = b
                       THEN [books[k] EXCEPT !.available_copies = @ - 1]
                       ELSE books[k]

IssueStepFrame ==
    Len(transactions') > Len(transactions) =>
        /\ Len(transactions') = Len(transactions) + 1
        /\ \A i \in 1..Len(transactions) : transactions'[i] = transactions[i]
        /\ users' = users
        /\ current_user' = current_user
        /\ Len(books') = Len(books)
        /\ \A k \in 1..Len(books) :
              books'[k] =
                  IF books[k].id = transactions'[Len(transactions')].book_id
                  THEN [books[k] EXCEPT !.available_copies = @ - 1]
                  ELSE books[k]

Thm_C14_IssueFrame == []IssueWritesOneLoan /\ [][IssueStepFrame]_vars

\* The second loan was issued in the current second: an earlier transaction
\* and a second book are in the store, and three users are registered.
Wit_C14_SecondLoanJustIssued ==
    /\ Len(transactions) = 2
    /\ Len(books) = 2
    /\ Len(users) = 3
    /\ ActiveRecord(transactions[2])
    /\ transactions[2].transaction_date = Strftime(Datetime(now))
    /\ transactions[2].book_id # transactions[1].book_id
    /\ BookRecord(books, transactions[2].book_id).available_copies
          = BookRecord(books, transactions[2].book_id).total_copies - 1

(***************************************************************************)
(* C15.  A successful return_book(b) by user u sets return_date on exactly *)
(* one transaction, the active one of (u, b), raises available_copies of b *)
(* by exactly 1, and leaves the number of transactions, every other        *)
(* transaction (other users' active loans of b among them), every other    *)
(* book and total_copies of b as they were.                                *)
(***************************************************************************)
ReturnClosesOneLoan ==
    \A b \in BookIds :
        LET r == return_book(books, transactions, current_user, b, now)
        IN r.ok =>
             /\ Len(r.transactions) = Len(transactions)
             /\ \E i \in ActiveOfPair(transactions, current_user.id, b) :
                   /\ r.transactions[i].return_date = Strftime(Datetime(now))
                   /\ r.transactions[i].id = transactions[i].id
                   /\ r.transactions[i].book_id = b
                   /\ r.transactions[i].user_id = current_user.id
                   /\ r.transactions[i].transaction_type = "issue"
                   /\ r.transactions[i].transaction_date = transactions[i].transaction_date
                   /\ r.transactions[i].due_date = transactions[i].due_date
                   /\ \A j \in 1..Len(transactions) :
                         j # i => r.transactions[j] = transactions[j]
             /\ Len(r.books) = Len(books)
             /\ \A k \in 1..Len(books) :
                   r.books[k] =
                       IF books[k].id = b
                       THEN [books[k] EXCEPT !.available_copies = @ + 1]
                       ELSE books[k]

ReturnStepFrame ==
    (\E i \in 1..Len(transactions) :
        ActiveRecord(transactions[i]) /\ ~ActiveRecord(transactions'[i]))
    => /\ Len(transactions') = Len(transactions)
       /\ Cardinality({i \in 1..Len(transactions) :
                          transactions'[i] # transactions[i]}) = 1
       /\ users' = users
       /\ current_user' = current_user
       /\ Len(books') = Len(books)
       /\ \A k \in 1..Len(books) :
             /\ books'[k].total_copies = books[k].total_copies
             /\ books'[k].available_copies \in
                   {books[k].available_copies, books[k].available_copies + 1}

Thm_C15_ReturnFrame == []ReturnClosesOneLoan /\ [][ReturnStepFrame]_vars

\* A loan of a book was returned in the current second while another user
\* still holds an active loan of the same book.
Wit_C15_ReturnedWhileOtherHolds ==
    \E i, j \in 1..Len(transactions) :
        /\ transactions[i].return_date = Strftime(Datetime(now))
        /\ transactions[i].transaction_date # transactions[i].return_date
        /\ ActiveRecord(transactions[j])
        /\ transactions[j].book_id = transactions[i].book_id
        /\ transactions[j].user_id # transactions[i].user_id
        /\ BookRecord(books, transactions[i].book_id).available_copies = 1

(***************************************************************************)
(* C16.  A successful remove_book deletes the named book record only: all  *)
(* transactions, the returned ones of the removed book among them, all     *)
(* other books and all users stay as they were.                            *)
(***************************************************************************)
RemoveDeletesOneBook ==
    \A b \in BookIds :
        LET r == remove_book(books, transactions, current_user, b, now)
        IN r.ok =>
             \E k \in 1..Len(books) :
                 /\ books[k].id = b
                 /\ Len(r.books) = Len(books) - 1
                 /\ \A i \in 1..Len(r.books) :
                       r.books[i] = IF i < k THEN books[i] ELSE books[i + 1]

RemoveStepFrame ==
    Len(books') < Len(books) =>
        /\ transactions' = transactions
        /\ users' = users
        /\ current_user' = current_user
        /\ Len(books') = Len(books) - 1
        /\ \A i \in 1..Len(books') : \E k \in 1..Len(books) : books'[i] = books[k]

Thm_C16_RemoveFrame == []RemoveDeletesOneBook /\ [][RemoveStepFrame]_vars

\* A returned transaction names a book that is no longer stored, while
\* another book is stored and on loan.
Wit_C16_DanglingReturnedLoan ==
    /\ \E i \in 1..Len(transactions) :
         /\ transactions[i].return_date # None
         /\ ~HasBook(books, transactions[i].book_id)
    /\ \E k \in 1..Len(books) : ActiveOfBook(transactions, books[k].id) # {}

(***************************************************************************)
(* C17.  register_user with a username equal, ignoring letter case, to     *)
(* that of a stored user fails and adds no user; so in every reachable     *)
(* state no two users have usernames that are equal ignoring case.         *)
(***************************************************************************)
\* Two characters, two strings, are equal ignoring letter case.
SameLetter(c, d) ==
    c = d \/ {c, d} \in {{"a", "A"}, {"b", "B"}, {"x", "X"}}
SameText(s, t) ==
    Len(s) = Len(t) /\ \A i \in 1..Len(s) : SameLetter(s[i], t[i])

RegisterTakenNameFails ==
    \A u \in AuthNames, p \in StoredPasswords, role \in AuthRoles :
        LET r == register_user(users, Len(users) + 1, u, p, role)
        IN IF \E i \in 1..Len(users) : SameText(users[i].username, u)
           THEN ~r.ok /\ r.msg = "Username already exists." /\ r.users = users
           ELSE r.ok /\ Len(r.users) = Len(users) + 1

UsernamesDifferBeyondCase ==
    \A i, j \in 1..Len(users) :
        i < j => ~SameText(users[i].username, users[j].username)

Thm_C17_UsernamesUniqueIgnoringCase ==
    RegisterTakenNameFails /\ UsernamesDifferBeyondCase

\* Two users are registered, one of them under a name in capitals.
Wit_C17_TwoUsersOneInCapitals ==
    /\ Len(users) = 2
    /\ \E i \in 1..Len(users) : users[i].username \in {<<"A">>, <<"B">>}

(***************************************************************************)
(* C18.  login(username, password) binds the session to the registered     *)
(* user exactly when the username is that of a stored user, ignoring case, *)
(* and the password is the one now stored for it; a login with an unknown  *)
(* username or a wrong password fails and leaves the session as it was.    *)
(***************************************************************************)
Thm_C18_LoginBindsOnStoredPassword ==
    \A u \in AuthNames, p \in TriedPasswords :
        LET r == login(users, current_user, u, p)
            hits == {i \in 1..Len(users) :
                        /\ SameText(users[i].username, u)
                        /\ users[i].password = hash_password(p)}
        IN IF hits # {}
           THEN /\ r.ok
                /\ \E i \in hits :
                      /\ r.current_user.id = users[i].id
                      /\ r.current_user.username = users[i].username
                      /\ r.current_user.role = users[i].role
                      /\ r.current_user.password = users[i].password
           ELSE ~r.ok /\ r.current_user = current_user

\* The second user is bound and has changed its password, so its first
\* password is now a wrong one; the first user still has its first password.
Wit_C18_BoundAfterPasswordChange ==
    /\ Len(users) = 2
    /\ Bound
    /\ current_user.id = users[2].id
    /\ users[2].password = hash_password("new")
    /\ users[1].password = hash_password("pw")
    /\ ~login(users, current_user, users[2].username, "pw").ok
    /\ login(users, current_user, users[2].username, "new").ok

(***************************************************************************)
(* C19.  search_books(query) with no field returns, in catalog order,      *)
(* exactly the books of which the title, the author or the isbn contains   *)
(* the query, letter case ignored (any one of the three suffices); with    *)
(* the field title, author or isbn it matches that field only.             *)
(***************************************************************************)
\* q occurs in s as a contiguous run of characters, letter case ignored.
OccursIn(q, s) ==
    \E i \in 0..(Len(s) - Len(q)) : \A j \in 1..Len(q) : SameLetter(q[j], s[i + j])

\* The stored book d is to be found for query q under field f.
FieldHit(d, q, f) ==
    CASE f = NoField -> OccursIn(q, d.title) \/ OccursIn(q, d.author) \/ OccursIn(q, d.isbn)
      [] f = "title" -> OccursIn(q, d.title)
      [] f = "author" -> OccursIn(q, d.author)
      [] f = "isbn" -> OccursIn(q, d.isbn)

Thm_C19_SearchIsSubstringAnyCase ==
    \A q \in Queries, f \in {NoField, "title", "author", "isbn"} :
        LET r == search_books(books, q, f)
            hits == {k \in 1..Len(books) : FieldHit(books[k], q, f)}
        IN /\ Len(r) = Cardinality(hits)
           /\ \A k \in hits : r[Cardinality({j \in hits : j <= k})] = books[k]

\* Two books are stored; the query x finds both when no field is given (one
\* by its author X, one by its isbn x2), one by author and none by title.
Wit_C19_FoundByAuthorAndByIsbn ==
    /\ Len(books) = 2
    /\ Len(search_books(books, <<"x">>, NoField)) = 2
    /\ Len(search_books(books, <<"x">>, "author")) = 1
    /\ Len(search_books(books, <<"x">>, "isbn")) = 1
    /\ search_books(books, <<"x">>, "title") = <<>>

(***************************************************************************)
(* C20.  get_user_books for the bound principal returns one entry for each *)
(* of that principal's active transactions, in their order, and none for   *)
(* other users' or returned transactions; an entry's is_overdue is         *)
(* (now > due_date) and its fine is 0.50 for every whole day since         *)
(* due_date when overdue and 0 otherwise, so a loan overdue by less than   *)
(* one whole day is listed as overdue with fine 0.                         *)
(***************************************************************************)
Thm_C20_UserBooksLiveFine ==
    Bound =>
        LET r == get_user_books(books, transactions, current_user, now)
            own == {i \in 1..Len(transactions) :
                       /\ ActiveRecord(transactions[i])
                       /\ transactions[i].user_id = current_user.id}
        IN /\ r.error = NoError
           /\ Len(r.items) = Cardinality(own)
           /\ \A i \in own :
                 LET item == r.items[Cardinality({j \in own : j <= i})]
                     due == transactions[i].due_date.text * MicrosPerSec
                 IN /\ item.transaction_id = transactions[i].id
                    /\ item.book.id = transactions[i].book_id
                    /\ item.due_date = Datetime(due)
                    /\ item.is_overdue = (now > due)
                    /\ item.fine = FineOwed(due, now)

\* The bound user's loan is overdue by less than a day, and is listed as
\* overdue with fine 0, while another user holds a loan of the same book.
Wit_C20_OverdueWithinFirstDay ==
    /\ Bound
    /\ \E i, j \in 1..Len(transactions) :
         /\ ActiveRecord(transactions[i])
         /\ ActiveRecord(transactions[j])
         /\ transactions[i].user_id = current_user.id
         /\ transactions[j].user_id # current_user.id
         /\ now > transactions[i].due_date.text * MicrosPerSec
         /\ now < transactions[i].due_date.text * MicrosPerSec + UnitsPerDay
    /\ LET r == get_user_books(books, transactions, current_user, now)
       IN Len(r.items) = 1 /\ r.items[1].is_overdue /\ r.items[1].fine = 0

(***************************************************************************)
(* C21.  get_overdue_books called by a librarian or admin returns exactly  *)
(* one entry for every transaction that is active and has due_date earlier *)
(* than now, in every reachable state (no overdue loan is left out because *)
(* its book or its user is missing), and no entry for a returned or a      *)
(* not yet due transaction.                                                *)
(***************************************************************************)
Thm_C21_OverdueBooksComplete ==
    LibrarianBound =>
        LET r == get_overdue_books(books, users, transactions, current_user, now)
            late == {i \in 1..Len(transactions) :
                        /\ ActiveRecord(transactions[i])
                        /\ now > transactions[i].due_date.text * MicrosPerSec}
        IN /\ r.error = NoError
           /\ Len(r.items) = Cardinality(late)
           /\ \A i \in late :
                 LET item == r.items[Cardinality({j \in late : j <= i})]
                 IN /\ item.transaction.id = transactions[i].id
                    /\ item.book.id = transactions[i].book_id
                    /\ item.user.id = transactions[i].user_id
                    /\ item.fine = FineOwed(transactions[i].due_date.text * MicrosPerSec, now)

\* A librarian or admin is bound while two loans are active, one past its
\* due date and one not yet due; the list has the one entry.
Wit_C21_OneOfTwoLoansOverdue ==
    /\ LibrarianBound
    /\ \E i, j \in 1..Len(transactions) :
         /\ ActiveRecord(transactions[i])
         /\ ActiveRecord(transactions[j])
         /\ now > transactions[i].due_date.text * MicrosPerSec
         /\ now <= transactions[j].due_date.text * MicrosPerSec
    /\ Len(get_overdue_books(books, users, transactions, current_user, now).items) = 1

(***************************************************************************)
(* C22, as stated.  add_book called with an empty title, author or isbn is *)
(* rejected, and neither creates a book nor changes the copy counts of a   *)
(* stored book.                                                            *)
(***************************************************************************)
CE_C22_EngineRejectsEmptyField ==
    \A t \in Titles \cup {<<>>}, a \in Authors \cup {<<>>},
       i \in Isbns \cup {<<>>}, c \in CopyCounts :
        (LibrarianBound /\ (t = <<>> \/ a = <<>> \/ i = <<>>))
        => LET r == add_book(books, current_user, nextBookId, t, a, i, c)
           IN ~r.ok /\ r.books = books

(***************************************************************************)
(* C22, amended.  "Add Book" of the librarian menu, given a title, author  *)
(* or isbn that is empty or blank, answers that title, author and ISBN are *)
(* required and does not call add_book: no book is created and no copy     *)
(* count changes.  (add_book itself does not look at empty fields.)        *)
(***************************************************************************)
\* The text typed in has no character other than blanks.
Blank(s) == \A i \in 1..Len(s) : s[i] = " "

Thm_C22_MenuRejectsEmptyField ==
    \A t \in TypedTitles, a \in TypedAuthors, i \in TypedIsbns, c \in TypedCopies :
        LET r == system_add_book(books, current_user, nextBookId, t, a, i, c)
        IN IF Blank(t) \/ Blank(a) \/ Blank(i)
           THEN /\ ~r.called
                /\ r.msg = "Title, author, and ISBN are required."
                /\ r.books = books
           ELSE r.called

\* A librarian or admin is bound and a book is stored to which add_book
\* would add a copy if it were called with an empty isbn; the menu, given
\* a blank isbn, leaves the books as they are.
Wit_C22_BlankIsbnAtTheMenu ==
    /\ LibrarianBound
    /\ Len(books) >= 1
    /\ add_book(books, current_user, nextBookId, <<"t">>, <<"x">>, <<>>, 1).books # books
    /\ system_add_book(books, current_user, nextBookId, <<"t">>, <<"x">>, <<" ">>,
                       <<>>).books = books

(***************************************************************************)
(* C26.  In every state reached by completed operations, every stored book *)
(* has available_copies = total_copies minus the number of active          *)
(* transactions that name it; hence the copies on loan at one time never   *)
(* exceed total_copies.                                                    *)
(***************************************************************************)
Thm_C26_AvailableIsTotalMinusActive ==
    \A k \in 1..Len(books) :
        /\ books[k].available_copies
              = books[k].total_copies
                  - Cardinality(ActiveOfBook(transactions, books[k].id))
        /\ Cardinality(ActiveOfBook(transactions, books[k].id)) <= books[k].total_copies

\* A book of two copies has one copy out and was lent and returned before.
Wit_C26_OneOutOneReturned ==
    \E k \in 1..Len(books) :
        /\ books[k].total_copies = 2
        /\ books[k].available_copies = 1
        /\ \E i \in 1..Len(transactions) :
              /\ transactions[i].book_id = books[k].id
              /\ transactions[i].return_date # None

(***************************************************************************)
(* C27.  In every reachable state every active transaction names a book    *)
(* and a user that are stored; so return_book by a user who holds an       *)
(* active transaction for a book never fails with NotFound, and only       *)
(* returned transactions name a removed book.                              *)
(***************************************************************************)
Thm_C27_ActiveLoansAreAnchored ==
    /\ \A i \in 1..Len(transactions) :
          \/ /\ HasBook(books, transactions[i].book_id)
             /\ \E u \in 1..Len(users) : users[u].id = transactions[i].user_id
          \/ /\ ~ActiveRecord(transactions[i])
             /\ \E u \in 1..Len(users) : users[u].id = transactions[i].user_id
    /\ \A b \in BookIds :
          (Bound /\ ActiveOfPair(transactions, current_user.id, b) # {})
          => LET r == return_book(books, transactions, current_user, b, now)
             IN r.ok /\ r.msg # NotFound

\* The bound user holds a loan while a returned transaction names a book
\* that has been removed.
Wit_C27_HolderBesideRemovedBook ==
    /\ Bound
    /\ \E i, j \in 1..Len(transactions) :
         /\ ActiveRecord(transactions[i])
         /\ transactions[i].user_id = current_user.id
         /\ ~ActiveRecord(transactions[j])
         /\ ~HasBook(books, transactions[j].book_id)

(***************************************************************************)
(* C28.  Transactions are only ever appended and closed: no step removes a *)
(* transaction or changes its id, book_id, user_id, type, transaction_date *)
(* or due_date; every transaction has type issue; once return_date is set  *)
(* the record never changes again, so a returned transaction never becomes *)
(* active again.                                                           *)
(***************************************************************************)
EveryTransactionIsAnIssue ==
    \A i \in 1..Len(transactions) : transactions[i].transaction_type = "issue"

AppendedOrClosedOnly ==
    /\ Len(transactions') >= Len(transactions)
    /\ \A i \in 1..Len(transactions) :
          /\ transactions'[i].id = transactions[i].id
          /\ transactions'[i].book_id = transactions[i].book_id
          /\ transactions'[i].user_id = transactions[i].user_id
          /\ transactions'[i].transaction_type = transactions[i].transaction_type
          /\ transactions'[i].transaction_date = transactions[i].transaction_date
          /\ transactions'[i].due_date = transactions[i].due_date
          /\ ~ActiveRecord(transactions[i]) =>
                /\ transactions'[i].return_date = transactions[i].return_date
                /\ ~ActiveRecord(transactions'[i])

Thm_C28_AppendAndCloseOnly ==
    []EveryTransactionIsAnIssue /\ [][AppendedOrClosedOnly]_vars

\* The first loan was returned a second or more after it was issued, and a
\* second transaction was appended after it.
Wit_C28_ClosedLaterThenAppended ==
    /\ Len(transactions) = 2
    /\ transactions[1].return_date # None
    /\ transactions[1].return_date # transactions[1].transaction_date
    /\ ActiveRecord(transactions[2])

(***************************************************************************)
(* C29.  After any sequence of add_book and remove_book calls that starts  *)
(* from the empty catalog, no two stored books have isbn values that are   *)
(* equal ignoring letter case.                                             *)
(***************************************************************************)
Thm_C29_IsbnsUniqueIgnoringCase ==
    \A i, j \in 1..Len(books) :
        i < j => ~SameText(books[i].isbn, books[j].isbn)

\* Two books are stored and a librarian or admin is bound; one book has
\* the isbn x2 in one of its spellings and received a second copy, and
\* add_book with the other spelling would add to it again.
Wit_C29_OtherSpellingMerges ==
    /\ LibrarianBound
    /\ Len(books) = 2
    /\ \E k \in 1..Len(books) :
         /\ books[k].isbn \in {<<"x", "2">>, <<"X", "2">>}
         /\ books[k].total_copies = 2
         /\ \E i \in {<<"x", "2">>, <<"X", "2">>} :
               /\ i # books[k].isbn
               /\ Len(add_book(books, current_user, nextBookId, <<"b">>, <<"a">>, i,
                               1).books) = 2

(***************************************************************************)
(* C30.  The queries search_books, get_all_books, get_user_books and       *)
(* get_overdue_books leave the stored books, users and transactions as     *)
(* they are: the due_date, is_overdue and fine they attach and the fine    *)
(* they compute are never written back, so the stored fine of a            *)
(* transaction that is still active is always 0.                           *)
(***************************************************************************)
QueriesWriteNothing ==
    LET mine == get_user_books(books, transactions, current_user, now)
        late == get_overdue_books(books, users, transactions, current_user, now)
    IN /\ mine.books = books
       /\ mine.transactions = transactions
       /\ late.books = books
       /\ late.transactions = transactions

ActiveFineStoredAsZero ==
    \A i \in 1..Len(transactions) :
        ActiveRecord(transactions[i]) => transactions[i].fine = 0

\* A step that changes a stored fine is the close of a loan by return_book.
FineWrittenAtReturnOnly ==
    \A i \in 1..Len(transactions) :
        (i <= Len(transactions') /\ transactions'[i].fine # transactions[i].fine)
        => ActiveRecord(transactions[i]) /\ ~ActiveRecord(transactions'[i])

Thm_C30_QueriesWriteNothing ==
    [](QueriesWriteNothing /\ ActiveFineStoredAsZero)
        /\ [][FineWrittenAtReturnOnly]_vars

\* A librarian or admin is bound and the list of overdue books shows a
\* fine above 0 for a loan whose stored fine is 0.
Wit_C30_LiveFineNotStored ==
    /\ LibrarianBound
    /\ LET late == get_overdue_books(books, users, transactions, current_user, now)
       IN \E k \in 1..Len(late.items) :
             /\ late.items[k].fine > 0
             /\ \E i \in 1..Len(transactions) :
                   /\ transactions[i].id = late.items[k].transaction.id
                   /\ transactions[i].fine = 0

(***************************************************************************)
(* C23.  issue_book writes the new transaction before the decremented      *)
(* book, and return_book writes the closed transaction before the          *)
(* incremented book: the write of transactions.json leaves books.json      *)
(* alone, books.json is written by a call only once its transaction is in  *)
(* transactions.json, and a call that stops writes nothing more.  The      *)
(* write of the transaction moves available_copies away from total_copies  *)
(* minus the active transactions of the book by exactly one, so a process  *)
(* that stops between the two writes of a call begun on counts that agreed *)
(* leaves stored counts that disagree.                                     *)
(***************************************************************************)
Drift(bs, ts, b) ==
    LET k == FirstIndex({i \in 1..Len(bs) : bs[i].id = b})
    IN bs[k].available_copies
         - (bs[k].total_copies - Cardinality(ActiveOfBook(ts, b)))

InCall == \E p \in Procs : procs[p].pc # "idle"

TransactionWrittenFirst ==
    /\ transactions' # transactions =>
          /\ books' = books
          /\ \E p \in Procs : procs[p].pc = "tx_read" /\ procs'[p].pc = "tx_written"
    /\ (InCall /\ books' # books) =>
          /\ transactions' = transactions
          /\ \E p \in Procs :
                /\ procs[p].pc = "bk_read" /\ procs'[p].pc = "idle"
                /\ \E i \in 1..Len(transactions) :
                      /\ transactions[i].id = procs[p].call.tr.id
                      /\ (procs[p].call.kind = "issue") = ActiveRecord(transactions[i])

FirstWriteUnbalances ==
    \A p \in Procs :
        (procs[p].pc = "tx_read" /\ procs'[p].pc = "tx_written") =>
            LET b == procs[p].call.book_id
            IN /\ HasBook(books', b)
               /\ Drift(books', transactions', b)
                     = Drift(books, transactions, b)
                         + (IF procs[p].call.kind = "issue" THEN 1 ELSE -1)
               /\ Drift(books, transactions, b) = 0
                     => books'[FirstIndex({i \in 1..Len(books') : books'[i].id = b})]
                           .available_copies
                          # books'[FirstIndex({i \in 1..Len(books') : books'[i].id = b})]
                              .total_copies
                            - Cardinality(ActiveOfBook(transactions', b))

StoppedCallKeepsFiles ==
    \A p \in Procs :
        (procs[p].pc \in {"tx_written", "bk_read"} /\ procs'[p] = IdleProc(None)) =>
            books' = books /\ transactions' = transactions

CE_C24_BoundSurvivesStops ==
    \A k \in 1..Len(books) : books[k].available_copies \in 0..books[k].total_copies

(***************************************************************************)
(* C24, amended.  With stops between the two writes and restarts, every    *)
(* stored book still has 0 <= available_copies, but available_copies can   *)
(* exceed total_copies, by no more than the number of returned             *)
(* transactions of the book.                                               *)
(***************************************************************************)
ReturnedOfBook(ts, b) ==
    {i \in 1..Len(ts) : ts[i].book_id = b /\ ts[i].return_date # None}

Thm_C24_NeverNegativeDespiteStops ==
    \A k \in 1..Len(books) :
        /\ 0 <= books[k].available_copies
        /\ books[k].available_copies
              <= books[k].total_copies
                   + Cardinality(ReturnedOfBook(transactions, books[k].id))

\* A book has more copies available than it has copies.
Wit_C24_MoreAvailableThanOwned ==
    /\ ~InCall
    /\ \E k \in 1..Len(books) : books[k].available_copies > books[k].total_copies

(***************************************************************************)
(* C25.  As claimed: when the issue_book calls of two processes interleave *)
(* read by read and write by write, no book has more active transactions   *)
(* than total_copies, and available_copies stays within 0..total_copies.   *)
(***************************************************************************)
CE_C25_InterleavedIssuesStayWithinCopies ==
    \A k \in 1..Len(books) :
        /\ Cardinality(ActiveOfBook(transactions, books[k].id)) <= books[k].total_copies
        /\ 0 <= books[k].available_copies
        /\ books[k].available_copies <= books[k].total_copies

(***************************************************************************)
(* C25, amended.  When the issue_book calls of two processes interleave    *)
(* read by read and write by write, available_copies never leaves          *)
(* 0..total_copies, but the active transactions of a book can outnumber    *)
(* its total_copies.                                                       *)
(***************************************************************************)
Thm_C25_InterleavedIssuesKeepRange ==
    \A k \in 1..Len(books) :
        /\ books[k].available_copies >= 0
        /\ books[k].total_copies - books[k].available_copies >= 0

\* Both processes are back from issue_book and the one copy of a book is
\* on loan twice.
Wit_C25_OneCopyLentTwice ==
    /\ ~InCall
    /\ \E k \in 1..Len(books) :
          /\ books[k].total_copies = 1
          /\ books[k].available_copies = 0
          /\ Cardinality(ActiveOfBook(transactions, books[k].id)) = 2

(***************************************************************************)
(* C31.  Every call of add_book, remove_book, issue_book, return_book,     *)
(* get_user_books or get_overdue_books that returns a failure (success     *)
(* False, or an error in the place of the list) leaves books, users,       *)
(* transactions and the bound principal exactly as they were: the call     *)
(* hands back the files it found, and no step that changes any of the four *)
(* is a call that failed.                                                  *)
(***************************************************************************)
FailedCallsKeepTheFiles ==
    /\ \A t \in Titles, a \in Authors, i \in Isbns, c \in 1..MaxCopies :
          LET r == add_book(books, current_user, nextBookId, t, a, i, c)
          IN ~r.ok => r.books = books
    /\ \A b \in BookIds :
          LET r == remove_book(books, transactions, current_user, b, now)
          IN ~r.ok => r.books = books
    /\ \A b \in BookIds, d \in 1..MaxLoanDays :
          LET r == issue_book(books, transactions, current_user,
                              Len(transactions) + 1, b, d, now)
          IN ~r.ok => r.books = books /\ r.transactions = transactions
    /\ \A b \in BookIds :
          LET r == return_book(books, transactions, current_user, b, now)
          IN ~r.ok => r.books = books /\ r.transactions = transactions
    /\ LET r == get_user_books(books, transactions, current_user, now)
       IN r.error # NoError => r.books = books /\ r.transactions = transactions
    /\ LET r == get_overdue_books(books, users, transactions, current_user, now)
       IN r.error # NoError => r.books = books /\ r.transactions = transactions

StoresAndSessionKept == UNCHANGED <<books, users, transactions, current_user>>

FailedCall ==
    \/ \E t \in Titles, a \in Authors, i \in Isbns, c \in 1..MaxCopies :
          /\ ~add_book(books, current_user, nextBookId, t, a, i, c).ok
          /\ AddBook(t, a, i, c)
    \/ \E b \in BookIds :
          /\ ~remove_book(books, transactions, current_user, b, now).ok
          /\ RemoveBook(b)
    \/ \E b \in BookIds, d \in 1..MaxLoanDays :
          /\ ~issue_book(books, transactions, current_user,
                         Len(transactions) + 1, b, d, now).ok
          /\ IssueBook(b, d)
    \/ \E b \in BookIds :
          /\ ~return_book(books, transactions, current_user, b, now).ok
          /\ ReturnBook(b)
    \/ /\ get_user_books(books, transactions, current_user, now).error # NoError
       /\ GetUserBooks
    \/ /\ get_overdue_books(books, users, transactions, current_user, now).error
            # NoError
       /\ GetOverdueBooks

FailedCallStepFrame == StoresAndSessionKept \/ ~FailedCall

Thm_C31_FailuresChangeNothing == []FailedCallsKeepTheFiles /\ [][FailedCallStepFrame]_vars

\* The bound member holds one book and another member holds the last copy
\* of a second one: the member's issue_book fails on one book because it is
\* held and on the other because no copy is left, the return_book of the
\* second fails, and remove_book and get_overdue_books are refused.
Wit_C31_FourRefusalsAtOnce ==
    /\ is_authenticated(current_user)
    /\ \E b1 \in BookIds, b2 \in BookIds :
          /\ issue_book(books, transactions, current_user, Len(transactions) + 1,
                        b1, 1, now).msg = "You already have this book issued."
          /\ issue_book(books, transactions, current_user, Len(transactions) + 1,
                        b2, 1, now).msg = "No copies of this book are available."
          /\ return_book(books, transactions, current_user, b2, now).msg
                = "You do not have this book issued."
          /\ remove_book(books, transactions, current_user, b2, now).msg
                = "Only librarians can remove books."
    /\ get_overdue_books(books, users, transactions, current_user, now).error # NoError

====
